---- MODULE Spec2Model ----
(***************************************************************************)
(* Model of the instance lifecycle controller of gh-workflow (src/main.go). *)
(* One behaviour is one invocation of the program, of its `terminate`      *)
(* command (terminateCmd.RunE, terminateEC2Instance and                    *)
(* waitForInstanceTermination) or of its `create` command (createCmd.RunE, *)
(* getGitHubRegistrationToken and createEC2Instance), run against a        *)
(* compute provider whose instance changes state on its own between the    *)
(* controller's calls.                                                     *)
(*                                                                         *)
(* Every provider call (DescribeInstances, TerminateInstances,             *)
(* StopInstances) is one action: the call, the provider's answer, and the  *)
(* code that handles the answer up to the next provider call or return.    *)
(* Time is counted in seconds inside the terminal wait only; a provider    *)
(* call is taken to answer within the tick in which it is issued.          *)
(***************************************************************************)
EXTENDS Integers, Sequences, FiniteSets, TLC

(***************************************************************************)
(* Program constants.                                                      *)
(***************************************************************************)
MinTimeout == 60
MaxTimeout == 3600
DefaultTimeout == 300
maxRetries == 3
ForceFloor == 120
StopGrace == 10
TickSeconds == 10

(***************************************************************************)
(* Bounds of the model: how many timeout values strictly inside the        *)
(* accepted range are tried besides the boundary values.                   *)
(***************************************************************************)
TimeoutSamples == 2

Max(a, b) == IF a >= b THEN a ELSE b

SampleTimeouts == {MinTimeout + 37 * k : k \in 1..TimeoutSamples}

TimeoutInputs ==
    {MinTimeout - 1, MinTimeout, 2 * ForceFloor + 1, DefaultTimeout,
     MaxTimeout, MaxTimeout + 1} \cup SampleTimeouts

(***************************************************************************)
(* Instance states of the provider. "other" stands for any state name      *)
(* outside the six the code knows; "absent" is an instance id the provider *)
(* does not (or no longer) know.                                           *)
(***************************************************************************)
KnownStates == {"pending", "running", "stopping", "stopped", "shutting-down", "terminated"}
StateNames == KnownStates \cup {"other"}
Absent == "absent"

(***************************************************************************)
(* Error texts, as character sequences, so that strings.Contains is        *)
(* computed rather than assumed.  The provider's texts carry the EC2 API   *)
(* error codes; the patterns are the literals of the code.                 *)
(***************************************************************************)
NotFoundPattern ==
    <<"I","n","v","a","l","i","d","I","n","s","t","a","n","c","e","I","d",
      ".","N","o","t","F","o","u","n","d">>
ConflictPattern ==
    <<"I","n","c","o","r","r","e","c","t","I","n","s","t","a","n","c","e",
      "S","t","a","t","e">>

ApiErrorPrefix == <<"a","p","i"," ","e","r","r","o","r"," ">>

ErrorText(code) ==
    CASE code = "notfound" ->
           ApiErrorPrefix \o
           <<"I","n","v","a","l","i","d","I","n","s","t","a","n","c","e","I","D",
             ".","N","o","t","F","o","u","n","d">>
      [] code = "conflict" ->
           ApiErrorPrefix \o
           <<"I","n","c","o","r","r","e","c","t","I","n","s","t","a","n","c","e",
             "S","t","a","t","e">>
      [] OTHER ->
           ApiErrorPrefix \o
           <<"R","e","q","u","e","s","t","L","i","m","i","t","E","x","c","e","e",
             "d","e","d">>

\* strings.Contains(s, sub)
Contains(s, sub) ==
    \E i \in 0..(Len(s) - Len(sub)) : SubSeq(s, i + 1, i + Len(sub)) = sub

(***************************************************************************)
(* Provider answers.  kind: "ok" (a non-empty list), "empty" (no error and *)
(* an empty list) or "err"; state: the instance state an "ok" answer       *)
(* carries; code: the error code of an "err" answer.                       *)
(***************************************************************************)
OkResp(s) == [kind |-> "ok", state |-> s, code |-> ""]
EmptyResp == [kind |-> "empty", state |-> "", code |-> ""]
ErrResp(c) == [kind |-> "err", state |-> "", code |-> c]
NoResp == [kind |-> "none", state |-> "", code |-> ""]

\* DescribeInstances by instance id: the answers the provider can give.
DescribeResponses(i) ==
    IF i = Absent
    THEN {ErrResp("notfound"), ErrResp("generic"), EmptyResp}
    ELSE {OkResp(i), ErrResp("generic")}

\* TerminateInstances: pairs <<answer, instance state after the call>>.
TerminateResponses(i) ==
    IF i = Absent
    THEN {<<ErrResp("notfound"), i>>, <<ErrResp("generic"), i>>, <<EmptyResp, i>>}
    ELSE LET after == IF i \in {"shutting-down", "terminated"} THEN i ELSE "shutting-down"
         IN  {<<OkResp(after), after>>, <<ErrResp("generic"), i>>,
              <<ErrResp("conflict"), i>>, <<EmptyResp, i>>}

\* StopInstances with Force: pairs <<answer, instance state after the call>>.
StopResponses(i) ==
    IF i = Absent
    THEN {<<ErrResp("notfound"), i>>, <<ErrResp("generic"), i>>}
    ELSE IF i \in {"running", "stopping", "stopped"}
    THEN {<<OkResp(IF i = "running" THEN "stopping" ELSE i),
            IF i = "running" THEN "stopping" ELSE i>>,
          <<ErrResp("generic"), i>>}
    ELSE {<<ErrResp("conflict"), i>>, <<ErrResp("generic"), i>>}

\* State changes the provider makes on its own (boot, stop, spot
\* interruption, shutdown, purge of the terminated record).
ProviderMoves(i) ==
    CASE i = "pending" -> {"running"}
      [] i = "running" -> {"stopping", "shutting-down"}
      [] i = "stopping" -> {"stopped", "shutting-down"}
      [] i = "stopped" -> {"shutting-down"}
      [] i = "shutting-down" -> {"terminated", "other"}
      [] i = "terminated" -> {Absent}
      [] OTHER -> {}

(***************************************************************************)
(* State.                                                                  *)
(*   instanceID, forceTerminate, terminationTimeout: the command's flags   *)
(*   awsCredentials: whether the credentials are in the environment        *)
(*   inst:          the provider's record of the instance                  *)
(*   pc:            the controller's position                              *)
(*   currentState:  the state the initial describe reported ("" before)    *)
(*   attempt:       the graceful loop's counter (0 outside the loop)       *)
(*   calls:         the provider calls and sleeps made before the wait, in *)
(*                  order, each with the provider's answer                 *)
(*   waitBudget:    timeoutSeconds of waitForInstanceTermination (0 while  *)
(*                  the wait has not been entered)                         *)
(*   elapsed:       seconds since the wait started                         *)
(*   polls:         describe calls issued by the wait                      *)
(*   lastPoll:      the answer to the wait's latest describe               *)
(*   termWhen:      when the provider's record came to read terminated:    *)
(*                  "never"; "early", a tick of the wait that precedes the *)
(*                  timer can observe it; "late", it happened within the   *)
(*                  budget but after the last tick that precedes the timer *)
(*   result:        "running" until the command returns, then "ok" or the  *)
(*                  error it returned                                      *)
(*   cmd:           the command on the command line                        *)
(*   createFlags:   the flags of the create command, by flag variable      *)
(*   httpResponse:  the CI platform's answer to the registration-token     *)
(*                  request                                                *)
(*   registrationToken: the token createEC2Instance holds ("" before)      *)
(*   runInputs:     the launch requests sent to the provider, in order     *)
(*   outputFormat:  the --output-format flag                               *)
(*   workflow:      the workflow run and the action inputs when the        *)
(*                  command is started by the composite action's start     *)
(*                  mode (action.yml); NoWorkflow on a bare command line   *)
(*   stdout:        the lines written to standard output so far           *)
(*   exitStatus:    the process's exit status (NotExited while it runs)    *)
(*   stderr:        the lines written to the error stream so far           *)
(***************************************************************************)
VARIABLES instanceID, forceTerminate, terminationTimeout, awsCredentials,
          inst, pc, currentState, attempt, calls, waitBudget, elapsed,
          polls, lastPoll, termWhen, result,
          cmd, createFlags, httpResponse, registrationToken, runInputs,
          outputFormat, workflow, stdout, exitStatus, stderr

flags == <<instanceID, forceTerminate, terminationTimeout, awsCredentials,
           outputFormat, workflow>>
exitVars == <<exitStatus, stderr>>
waitVars == <<waitBudget, elapsed, polls, lastPoll>>
createVars == <<cmd, createFlags, httpResponse, registrationToken, runInputs>>
terminateVars == <<instanceID, forceTerminate, terminationTimeout, currentState,
                   attempt, waitBudget, elapsed, polls, lastPoll>>
vars == <<instanceID, forceTerminate, terminationTimeout, awsCredentials,
          inst, pc, currentState, attempt, calls, waitBudget, elapsed,
          polls, lastPoll, termWhen, result,
          cmd, createFlags, httpResponse, registrationToken, runInputs,
          outputFormat, workflow, stdout, exitStatus, stderr>>

Call(op, resp, secs) == [op |-> op, resp |-> resp, secs |-> secs]

ErrInstanceIDRequired == "instance-id is required"
ErrTimeoutTooSmall == "timeout must be at least 60 seconds"
ErrTimeoutTooLarge == "timeout cannot exceed 3600 seconds (1 hour)"
ErrCredentials == "AWS credentials not found in environment variables"
ErrFindFailed == "failed to find instance"
ErrNotFound == "instance not found"
ErrInvalidState == "instance is in state and cannot be terminated"
ErrStateConflict == "instance is in state and cannot be terminated gracefully"
ErrTerminateFailed == "failed to terminate instance after attempts"
ErrForceFailed == "force termination failed for instance"
ErrForceUnexpected == "force termination failed for instance: unexpected response from terminate instances API"
ErrWaitTimeout == "timeout waiting for instance to terminate"
ErrWaitDescribe == "error checking instance state"
ErrUnexpectedState == "instance is in unexpected state"

(***************************************************************************)
(* Standard output.  A line is "Key: value" (Line) or a decorated line of  *)
(* human text (Text); stdout holds the lines written, without their order. *)
(***************************************************************************)
OutputFormats == {"", "github-actions"}

Line(key, value) == [key |-> key, value |-> value]
Text(t) == [key |-> "", value |-> t]

\* if outputFormat != "github-actions" { fmt.Printf(...) }
Human(lines) == IF outputFormat # "github-actions" THEN lines ELSE {}

\* if outputFormat == "github-actions" { fmt.Printf(...) }
Machine(lines) == IF outputFormat = "github-actions" THEN lines ELSE {}

Write(lines) == stdout' = stdout \cup lines

Region == "us-east-1"

\* createEC2Client: fmt.Println("AWS Region: ", region)
RegionLine == Line("AWS Region", " " \o Region)

\* waitForInstanceTermination: the line written on entry.
WaitingText == Text("Waiting for instance to terminate...")

NewInstanceID == "i-new"

NotExited == -1
NoWorkflow == [runNumber |-> 0, runAttempt |-> 0, labels |-> ""]

(***************************************************************************)
(* The create command's flags.  A pre-runner script is a sequence of       *)
(* characters, so that the quoting generateUserData applies is computed.   *)
(***************************************************************************)
DefaultLabels == "self-hosted,linux,x64"

\* The flags as cobra leaves them when none is given.
DefaultCreateFlags ==
    [githubToken |-> "", imageID |-> "", instanceType |-> "", subnetID |-> "",
     securityGroupID |-> "", repoOwner |-> "", repoName |-> "",
     runnerLabels |-> DefaultLabels, preRunnerScript |-> <<>>, runnerName |-> "",
     instanceMarketType |-> "on-demand", spotMaxPrice |-> ""]

\* The flag values a create command line is drawn from.
CreateFlagInputs ==
    [githubToken : {"", "ghp_pat"}, imageID : {"", "ami-1"},
     instanceType : {"", "t3.micro"}, subnetID : {"", "subnet-1"},
     securityGroupID : {"", "sg-1"}, repoOwner : {"", "octo"},
     repoName : {"", "repo"},
     runnerLabels : {"", "self-hosted,linux,x64,run-7-1"},
     preRunnerScript : {<<>>, <<"e", "c", "h", "o", " ", "\"", "h", "i", "\"">>},
     runnerName : {"", "runner-7-1"},
     instanceMarketType : {"on-demand", "spot", "reserved"},
     spotMaxPrice : {"", "0.01"}]

NoHttpResponse == [transport |-> "none", status |-> 0, body |-> ""]

\* The state before a terminate command line runs.
TerminateInit ==
    /\ cmd = "terminate"
    /\ createFlags = DefaultCreateFlags
    /\ httpResponse = NoHttpResponse
    /\ registrationToken = ""
    /\ runInputs = <<>>
    /\ instanceID \in {"", "i-1"}
    /\ forceTerminate \in BOOLEAN
    /\ terminationTimeout \in TimeoutInputs
    /\ awsCredentials \in BOOLEAN
    /\ inst \in StateNames \cup {Absent}
    /\ pc = "start"
    /\ currentState = ""
    /\ attempt = 0
    /\ calls = <<>>
    /\ waitBudget = 0
    /\ elapsed = 0
    /\ polls = 0
    /\ lastPoll = NoResp
    /\ termWhen = IF inst = "terminated" THEN "early" ELSE "never"
    /\ result = "running"
    /\ outputFormat = ""
    /\ workflow = NoWorkflow
    /\ stdout = {}
    /\ exitStatus = NotExited
    /\ stderr = {}

\* The state before a create command line runs: the instance does not exist.
CreateInit ==
    /\ cmd = "create"
    /\ createFlags \in CreateFlagInputs
    /\ httpResponse = NoHttpResponse
    /\ registrationToken = ""
    /\ runInputs = <<>>
    /\ instanceID = ""
    /\ forceTerminate = FALSE
    /\ terminationTimeout = DefaultTimeout
    /\ awsCredentials \in BOOLEAN
    /\ inst = Absent
    /\ pc = "start"
    /\ currentState = ""
    /\ attempt = 0
    /\ calls = <<>>
    /\ waitBudget = 0
    /\ elapsed = 0
    /\ polls = 0
    /\ lastPoll = NoResp
    /\ termWhen = "never"
    /\ result = "running"
    /\ outputFormat = ""
    /\ workflow = NoWorkflow
    /\ stdout = {}
    /\ exitStatus = NotExited
    /\ stderr = {}

Init == TerminateInit \/ CreateInit

\* ExitStatus that is zero whatever the command returned.
ExitStatusAlwaysZero(r) ==
    0

\* main: the exit status for what rootCmd.Execute returned.
ExitStatus(r) ==
    IF r # "ok" THEN 1 ELSE 0

\* main: what goes to os.Stderr.
ErrorStream(r) ==
    IF r # "ok" THEN {"Error: " \o r} ELSE {}

\* The command returns r to rootCmd.Execute and main ends the process.
Finish(r) ==
    /\ pc' = "done"
    /\ result' = r
    /\ exitStatus' = ExitStatus(r)
    /\ stderr' = stderr \cup ErrorStream(r)

\* return err / return nil
Return(r) ==
    /\ Finish(r)
    /\ UNCHANGED waitVars

\* control moves on to the provider call at position p
Goto(p) ==
    /\ pc' = p
    /\ result' = result
    /\ UNCHANGED waitVars
    /\ UNCHANGED exitVars

\* EnterWait with half the budget it was given.
EnterWaitHalved(budget) ==
    /\ pc' = "wait"
    /\ waitBudget' = budget \div 2
    /\ elapsed' = 0
    /\ polls' = 0
    /\ lastPoll' = NoResp
    /\ result' = result
    /\ UNCHANGED exitVars

\* waitForInstanceTermination(svc, instanceID, budget): timer and ticker are
\* created; the first poll is one tick away.
EnterWait(budget) ==
    /\ pc' = "wait"
    /\ waitBudget' = budget
    /\ elapsed' = 0
    /\ polls' = 0
    /\ lastPoll' = NoResp
    /\ result' = result
    /\ UNCHANGED exitVars

\* ValidateFlags with the lower bound off by one.
ValidateFlagsOffByOne(id, timeout) ==
    IF id = "" THEN ErrInstanceIDRequired
    ELSE IF timeout <= MinTimeout THEN ErrTimeoutTooSmall
    ELSE IF timeout > MaxTimeout THEN ErrTimeoutTooLarge
    ELSE "ok"

\* terminateCmd.RunE: the flag checks, in the code's order.
ValidateFlags(id, timeout) ==
    IF id = "" THEN ErrInstanceIDRequired
    ELSE IF timeout < MinTimeout THEN ErrTimeoutTooSmall
    ELSE IF timeout > MaxTimeout THEN ErrTimeoutTooLarge
    ELSE "ok"

\* What terminateCmd.RunE and createEC2Client write.
TerminateCmdOutput(v) ==
    IF v # "ok" THEN {}
    ELSE Human({Text(IF forceTerminate THEN "Force terminating EC2 instance..."
                     ELSE "Terminating EC2 instance...")})
         \cup (IF awsCredentials THEN {RegionLine} ELSE {})

\* terminateCmd.RunE and the head of terminateEC2Instance (createEC2Client).
TerminateCmd ==
    /\ pc = "start"
    /\ LET v == ValidateFlags(instanceID, terminationTimeout)
       IN  /\ IF v # "ok" THEN Return(v)
              ELSE IF ~awsCredentials THEN Return(ErrCredentials)
              ELSE Goto("describe")
           /\ Write(TerminateCmdOutput(v))
    /\ UNCHANGED <<flags, inst, currentState, attempt, calls, termWhen>>

\* InitialDecision without the already-terminated shortcut.
InitialDecisionNoShortcut(state) ==
    IF state = "terminated" \/ state = "shutting-down" THEN "wait"
    ELSE IF state # "running" /\ state # "stopping" /\ state # "stopped" THEN "invalid"
    ELSE "terminate"

\* InitialDecision that sends a shutting-down instance to the terminate call.
InitialDecisionTerminateAnyway(state) ==
    IF state = "terminated" THEN "success"
    ELSE IF state # "running" /\ state # "stopping" /\ state # "stopped"
            /\ state # "shutting-down" THEN "invalid"
    ELSE "terminate"

\* InitialDecision that refuses nothing.
InitialDecisionNoRefusal(state) ==
    IF state = "terminated" THEN "success"
    ELSE IF state = "shutting-down" THEN "wait"
    ELSE "terminate"

\* What terminateEC2Instance does with the state the initial describe reported.
InitialDecision(state) ==
    IF state = "terminated" THEN "success"
    ELSE IF state = "shutting-down" THEN "wait"
    ELSE IF state # "running" /\ state # "stopping" /\ state # "stopped" THEN "invalid"
    ELSE "terminate"

\* InitialOutcome that goes on to terminate after a failed or empty describe.
InitialOutcomeIgnoreFailure(r) ==
    IF r.kind = "err" \/ r.kind = "empty" THEN "terminate"
    ELSE InitialDecision(r.state)

\* What terminateEC2Instance does with the answer to the initial describe.
InitialOutcome(r) ==
    IF r.kind = "err" THEN "find-failed"
    ELSE IF r.kind = "empty" THEN "not-found"
    ELSE InitialDecision(r.state)

\* What terminateEC2Instance writes from the initial describe to its next
\* provider call or return.
InitialDescribeOutput(r) ==
    LET d == InitialOutcome(r)
    IN  IF d \in {"find-failed", "not-found"} THEN {}
        ELSE Human({Text("Instance current state: " \o r.state)})
             \cup (CASE d = "success" ->
                          Machine({Line("Termination Status", r.state)})
                          \cup Human({Text("Instance is already terminated")})
                     [] d = "wait" ->
                          Machine({Line("Termination Status", r.state)})
                          \cup Human({Text("Instance is already shutting down"),
                                      WaitingText})
                     [] d = "invalid" -> {}
                     [] OTHER ->
                          Human(IF forceTerminate
                                THEN {Text("Force terminating instance..."),
                                      Text("Using force termination methods...")}
                                ELSE {Text("Initiating graceful termination of instance...")}))

\* terminateEC2Instance: the initial DescribeInstances and the state checks.
InitialDescribe ==
    /\ pc = "describe"
    /\ \E r \in DescribeResponses(inst) :
         /\ calls' = Append(calls, Call("describe", r, 0))
         /\ Write(InitialDescribeOutput(r))
         /\ LET d == InitialOutcome(r)
            IN  /\ currentState' = IF d \in {"find-failed", "not-found"}
                                   THEN currentState ELSE r.state
                /\ CASE d = "find-failed" -> Return(ErrFindFailed) /\ attempt' = attempt
                     [] d = "not-found" -> Return(ErrNotFound) /\ attempt' = attempt
                     [] d = "success" -> Return("ok") /\ attempt' = attempt
                     [] d = "wait" -> EnterWait(terminationTimeout) /\ attempt' = attempt
                     [] d = "invalid" -> Return(ErrInvalidState) /\ attempt' = attempt
                     [] OTHER ->
                          IF ~forceTerminate
                          THEN Goto("graceful") /\ attempt' = 1
                          ELSE Goto("force1") /\ attempt' = attempt
    /\ UNCHANGED <<flags, inst, termWhen>>

\* GracefulOnError without the state-conflict check.
GracefulOnErrorRetryConflict(code, att) ==
    IF att < maxRetries THEN "retry" ELSE "fail"

\* The graceful loop's reaction to a failed terminate call on attempt att.
GracefulOnError(code, att) ==
    IF Contains(ErrorText(code), ConflictPattern) THEN "abort"
    ELSE IF att < maxRetries THEN "retry"
    ELSE "fail"

\* BackOff that sleeps one second whatever the attempt.
BackOffConstant(att) ==
    1

\* The graceful loop's sleep before the next attempt, in seconds.
BackOff(att) ==
    att

\* What the terminate calls write when they yield a terminating instance.
TerminatingOutput(r, text) ==
    Machine({Line("Termination Status", r.state)})
    \cup Human({Text(text), Line("Current State", r.state), WaitingText})

\* What one iteration of the graceful loop writes.
GracefulTerminateOutput(r, att) ==
    Human(IF att > 1 THEN {Text("Retry attempt...")} ELSE {})
    \cup (IF r.kind = "err"
          THEN IF Contains(ErrorText(r.code), ConflictPattern)
               THEN Human({Text("Instance is in a state that prevents termination: "
                                \o currentState),
                           Text("Try using --force flag for force termination")})
               ELSE {}
          ELSE IF r.kind = "ok"
          THEN TerminatingOutput(r, "Instance termination initiated!")
          ELSE {})

\* One iteration of the graceful retry loop: TerminateInstances and the
\* handling of its answer.
GracefulTerminate ==
    /\ pc = "graceful"
    /\ \E tr \in TerminateResponses(inst) :
         LET r == tr[1]
             logged == Append(calls, Call("terminate", r, 0))
         IN  /\ inst' = tr[2]
             /\ Write(GracefulTerminateOutput(r, attempt))
             /\ IF r.kind = "err" THEN
                    LET d == GracefulOnError(r.code, attempt)
                    IN  CASE d = "abort" ->
                               /\ Return(ErrStateConflict)
                               /\ calls' = logged
                               /\ attempt' = attempt
                          [] d = "retry" ->
                               /\ Goto("graceful")
                               /\ calls' = Append(logged,
                                                  Call("sleep", NoResp, BackOff(attempt)))
                               /\ attempt' = attempt + 1
                          [] OTHER ->
                               /\ Return(ErrTerminateFailed)
                               /\ calls' = logged
                               /\ attempt' = attempt
                ELSE IF r.kind = "ok" THEN
                    /\ EnterWait(terminationTimeout)
                    /\ calls' = logged
                    /\ attempt' = attempt
                ELSE
                    /\ calls' = logged
                    /\ attempt' = attempt + 1
                    /\ IF attempt + 1 <= maxRetries
                       THEN Goto("graceful")
                       ELSE Return(ErrForceUnexpected)
    /\ UNCHANGED <<flags, currentState, termWhen>>

\* ForceTimeout that doubles the timeout.
ForceTimeoutDoubled(timeoutSeconds) ==
    timeoutSeconds * 2

\* ForceTimeout without the floor.
ForceTimeoutNoFloor(timeoutSeconds) ==
    timeoutSeconds \div 2

\* The budget of the terminal wait in the forced path.
ForceTimeout(timeoutSeconds) ==
    LET forceTimeout == timeoutSeconds \div 2
    IN  IF forceTimeout < ForceFloor THEN ForceFloor ELSE forceTimeout

\* ForceTerminate that takes an instance the provider has already terminated
\* for a failure.
ForceTerminateRefusesTerminated ==
    /\ pc = "force1"
    /\ \E tr \in TerminateResponses(inst) :
         LET r == tr[1]
         IN  /\ inst' = tr[2]
             /\ calls' = Append(calls, Call("terminate", r, 0))
             /\ Write(IF r.kind = "ok"
                      THEN TerminatingOutput(r, "Force termination initiated!")
                      ELSE Human({Text("Standard termination failed, trying stop + terminate...")}))
             /\ IF r.kind = "ok" /\ r.state = "terminated"
                THEN Return(ErrForceFailed)
                ELSE IF r.kind = "ok"
                THEN EnterWait(ForceTimeout(terminationTimeout))
                ELSE Goto("stop")
    /\ UNCHANGED <<flags, currentState, attempt, termWhen>>

\* Forced path, method 1: a direct TerminateInstances.
ForceTerminate ==
    /\ pc = "force1"
    /\ \E tr \in TerminateResponses(inst) :
         LET r == tr[1]
         IN  /\ inst' = tr[2]
             /\ calls' = Append(calls, Call("terminate", r, 0))
             /\ Write(IF r.kind = "ok"
                      THEN TerminatingOutput(r, "Force termination initiated!")
                      ELSE Human({Text("Standard termination failed, trying stop + terminate...")}))
             /\ IF r.kind = "ok"
                THEN EnterWait(ForceTimeout(terminationTimeout))
                ELSE Goto("stop")
    /\ UNCHANGED <<flags, currentState, attempt, termWhen>>

\* GraceAfterStop that sleeps whatever the stop call answered.
GraceAlways(r) ==
    StopGrace

\* Seconds slept after the stop call was answered with r (0: no sleep).
GraceAfterStop(r) ==
    IF r.kind = "err" THEN 0 ELSE StopGrace

\* ForceStop that gives up when the stop call fails.
ForceStopGivesUp ==
    /\ pc = "stop"
    /\ \E sr \in StopResponses(inst) :
         LET r == sr[1]
             logged == Append(calls, Call("stop", r, 0))
         IN  /\ inst' = sr[2]
             /\ calls' = IF GraceAfterStop(r) = 0
                         THEN logged
                         ELSE Append(logged, Call("sleep", NoResp, GraceAfterStop(r)))
             /\ Write(Human({Text(IF r.kind = "err" THEN "Stop also failed"
                                  ELSE "Instance stopped, now terminating...")}))
             /\ IF r.kind = "err" THEN Return(ErrForceFailed) ELSE Goto("force2")
    /\ UNCHANGED <<flags, currentState, attempt, termWhen>>

\* Forced path, method 2: StopInstances with Force, and the grace sleep.
ForceStop ==
    /\ pc = "stop"
    /\ \E sr \in StopResponses(inst) :
         LET r == sr[1]
             logged == Append(calls, Call("stop", r, 0))
         IN  /\ inst' = sr[2]
             /\ calls' = IF GraceAfterStop(r) = 0
                         THEN logged
                         ELSE Append(logged, Call("sleep", NoResp, GraceAfterStop(r)))
             /\ Write(Human({Text(IF r.kind = "err" THEN "Stop also failed"
                                  ELSE "Instance stopped, now terminating...")}))
             /\ Goto("force2")
    /\ UNCHANGED <<flags, currentState, attempt, termWhen>>

\* ForceTerminateAgain that waits whenever the call did not err.
ForceTerminateAgainWaitsOnEmpty ==
    /\ pc = "force2"
    /\ \E tr \in TerminateResponses(inst) :
         LET r == tr[1]
         IN  /\ inst' = tr[2]
             /\ calls' = Append(calls, Call("terminate", r, 0))
             /\ Write(IF r.kind = "ok"
                      THEN TerminatingOutput(r, "Force termination successful!")
                      ELSE {})
             /\ IF r.kind = "err" THEN Return(ErrForceFailed)
                ELSE EnterWait(ForceTimeout(terminationTimeout))
    /\ UNCHANGED <<flags, currentState, attempt, termWhen>>

\* Forced path, method 2: TerminateInstances again after the stop.
ForceTerminateAgain ==
    /\ pc = "force2"
    /\ \E tr \in TerminateResponses(inst) :
         LET r == tr[1]
         IN  /\ inst' = tr[2]
             /\ calls' = Append(calls, Call("terminate", r, 0))
             /\ Write(IF r.kind = "ok"
                      THEN TerminatingOutput(r, "Force termination successful!")
                      ELSE {})
             /\ IF r.kind = "err" THEN Return(ErrForceFailed)
                ELSE IF r.kind = "ok" THEN EnterWait(ForceTimeout(terminationTimeout))
                ELSE Return(ErrForceUnexpected)
    /\ UNCHANGED <<flags, currentState, attempt, termWhen>>

\* PollDecision that takes shutting-down for the end of the instance.
PollDecisionShuttingDownEnds(r) ==
    IF r.kind = "err" THEN
        IF Contains(ErrorText(r.code), NotFoundPattern) THEN "success" ELSE "error"
    ELSE IF r.kind = "ok" THEN
        IF r.state = "terminated" \/ r.state = "shutting-down" THEN "success"
        ELSE IF r.state = "stopping" THEN "continue"
        ELSE IF r.state # "running" /\ r.state # "pending" /\ r.state # "stopping"
                /\ r.state # "stopped" /\ r.state # "shutting-down" THEN "unexpected"
        ELSE "continue"
    ELSE "continue"

\* PollDecision that keeps polling whatever state it is shown.
PollDecisionLoopsOnUnknown(r) ==
    IF r.kind = "err" THEN
        IF Contains(ErrorText(r.code), NotFoundPattern) THEN "success" ELSE "error"
    ELSE IF r.kind = "ok" THEN
        IF r.state = "terminated" THEN "success" ELSE "continue"
    ELSE "continue"

\* PollDecision that keeps polling an instance it has seen terminated.
PollDecisionMissesTerminated(r) ==
    IF r.kind = "err" THEN
        IF Contains(ErrorText(r.code), NotFoundPattern) THEN "success" ELSE "error"
    ELSE IF r.kind = "ok" THEN
        IF r.state \in KnownStates THEN "continue" ELSE "unexpected"
    ELSE "continue"

\* PollDecision that tries again on the next tick after a failed describe.
PollDecisionRetriesErrors(r) ==
    IF r.kind = "err" THEN
        IF Contains(ErrorText(r.code), NotFoundPattern) THEN "success" ELSE "continue"
    ELSE IF r.kind = "ok" THEN
        IF r.state = "terminated" THEN "success"
        ELSE IF r.state = "shutting-down" \/ r.state = "stopping" THEN "continue"
        ELSE IF r.state # "running" /\ r.state # "pending" /\ r.state # "stopping"
                /\ r.state # "stopped" /\ r.state # "shutting-down" THEN "unexpected"
        ELSE "continue"
    ELSE "continue"

\* waitForInstanceTermination: what one poll's answer decides.
PollDecision(r) ==
    IF r.kind = "err" THEN
        IF Contains(ErrorText(r.code), NotFoundPattern) THEN "success" ELSE "error"
    ELSE IF r.kind = "ok" THEN
        IF r.state = "terminated" THEN "success"
        ELSE IF r.state = "shutting-down" \/ r.state = "stopping" THEN "continue"
        ELSE IF r.state # "running" /\ r.state # "pending" /\ r.state # "stopping"
                /\ r.state # "stopped" /\ r.state # "shutting-down" THEN "unexpected"
        ELSE "continue"
    ELSE "continue"

\* What one poll of the terminal wait writes.
WaitPollOutput(r) ==
    IF r.kind = "err"
    THEN IF Contains(ErrorText(r.code), NotFoundPattern)
         THEN Human({Text("Instance has been terminated!")}) ELSE {}
    ELSE IF r.kind = "ok"
    THEN Human({Text("Instance state: " \o r.state)}
               \cup (IF r.state = "terminated"
                     THEN {Text("Instance has been successfully terminated!")}
                     ELSE {}))
    ELSE {}

\* WaitPoll whose first poll comes at once instead of one tick into the wait.
WaitPollAtOnce ==
    /\ pc = "wait"
    /\ elapsed + (IF polls = 0 THEN 0 ELSE TickSeconds) <= waitBudget
    /\ \E r \in DescribeResponses(inst) :
         /\ lastPoll' = r
         /\ Write(WaitPollOutput(r))
         /\ polls' = polls + 1
         /\ elapsed' = elapsed + (IF polls = 0 THEN 0 ELSE TickSeconds)
         /\ waitBudget' = waitBudget
         /\ LET d == PollDecision(r)
            IN  CASE d = "success" -> Finish("ok")
                  [] d = "error" -> Finish(ErrWaitDescribe)
                  [] d = "unexpected" -> Finish(ErrUnexpectedState)
                  [] OTHER -> pc' = "wait" /\ result' = result /\ UNCHANGED exitVars
    /\ UNCHANGED <<flags, inst, currentState, attempt, calls, termWhen>>

\* waitForInstanceTermination, case <-ticker.C: the next tick comes no later
\* than the timer.
WaitPoll ==
    /\ pc = "wait"
    /\ elapsed + TickSeconds <= waitBudget
    /\ \E r \in DescribeResponses(inst) :
         /\ lastPoll' = r
         /\ Write(WaitPollOutput(r))
         /\ polls' = polls + 1
         /\ elapsed' = elapsed + TickSeconds
         /\ waitBudget' = waitBudget
         /\ LET d == PollDecision(r)
            IN  CASE d = "success" -> Finish("ok")
                  [] d = "error" -> Finish(ErrWaitDescribe)
                  [] d = "unexpected" -> Finish(ErrUnexpectedState)
                  [] OTHER -> pc' = "wait" /\ result' = result /\ UNCHANGED exitVars
    /\ UNCHANGED <<flags, inst, currentState, attempt, calls, termWhen>>

\* WaitTimeout whose timer never fires.
WaitTimeoutDisarmed ==
    /\ pc = "wait"
    /\ waitBudget < 0
    /\ elapsed' = waitBudget
    /\ Finish(ErrWaitTimeout)
    /\ UNCHANGED <<flags, inst, currentState, attempt, calls, waitBudget, polls,
                   lastPoll, termWhen, stdout>>

\* waitForInstanceTermination, case <-timeout: the timer fires no later than
\* the next tick (when both are due, select takes either).
WaitTimeout ==
    /\ pc = "wait"
    /\ waitBudget <= elapsed + TickSeconds
    /\ elapsed' = waitBudget
    /\ Finish(ErrWaitTimeout)
    /\ UNCHANGED <<flags, inst, currentState, attempt, calls, waitBudget, polls,
                   lastPoll, termWhen, stdout>>

\* The provider changes the instance's state while the command runs.
ProviderStep ==
    /\ pc \notin {"start", "done"}
    /\ \E s \in ProviderMoves(inst) :
         /\ inst' = s
         /\ termWhen' = IF s # "terminated" THEN termWhen
                        ELSE IF pc = "wait" /\ elapsed + TickSeconds >= waitBudget
                        THEN "late"
                        ELSE "early"
    /\ UNCHANGED <<flags, pc, currentState, attempt, calls, waitVars, result,
                   stdout, exitVars>>

(***************************************************************************)
(* The create command.                                                     *)
(***************************************************************************)
ErrGithubTokenRequired == "github-token is required (GitHub personal access token)"
ErrImageIDRequired == "image-id is required"
ErrInstanceTypeRequired == "instance-type is required"
ErrSubnetIDRequired == "subnet-id is required"
ErrSecurityGroupRequired == "security-group is required"
ErrRepoOwnerRequired == "repo-owner is required"
ErrRepoNameRequired == "repo-name is required"
ErrMarketType == "instance-market-type must be 'on-demand' or 'spot'"
ErrTokenFailed == "failed to get GitHub registration token"
ErrLaunchFailed == "failed to create EC2 instance"

\* createCmd.RunE: the flag checks, in the code's order.
ValidateCreateFlags(f) ==
    IF f.githubToken = "" THEN ErrGithubTokenRequired
    ELSE IF f.imageID = "" THEN ErrImageIDRequired
    ELSE IF f.instanceType = "" THEN ErrInstanceTypeRequired
    ELSE IF f.subnetID = "" THEN ErrSubnetIDRequired
    ELSE IF f.securityGroupID = "" THEN ErrSecurityGroupRequired
    ELSE IF f.repoOwner = "" THEN ErrRepoOwnerRequired
    ELSE IF f.repoName = "" THEN ErrRepoNameRequired
    ELSE IF f.instanceMarketType # "on-demand" /\ f.instanceMarketType # "spot"
    THEN ErrMarketType
    ELSE "ok"

\* createCmd.RunE, and createEC2Instance up to the token request.
CreateCmd ==
    /\ pc = "start"
    /\ cmd = "create"
    /\ LET v == ValidateCreateFlags(createFlags)
       IN  /\ IF v # "ok" THEN Return(v) ELSE Goto("token")
           /\ Write(IF v # "ok" THEN {}
                    ELSE Human({Text("Creating EC2 instance for GitHub Actions runner..."),
                                Text("Fetching GitHub runner registration token...")}))
    /\ UNCHANGED <<flags, inst, currentState, attempt, calls, termWhen, createVars>>

\* The answers the registration-token endpoint can give: the request fails
\* in transport, the body cannot be read, or a status with a body that is
\* the token object, an empty JSON object, or no JSON at all.
HttpResponses ==
    {[transport |-> t, status |-> 0, body |-> ""] : t \in {"fail", "readfail"}}
    \cup [transport : {"ok"}, status : {200, 201, 401},
          body : {"token", "empty-object", "garbage"}]

StatusCreated == 201

\* getGitHubRegistrationToken that does not look at the status.
getGitHubRegistrationTokenAnyStatus(resp) ==
    IF resp.transport = "fail" THEN [err |-> "failed to make request", token |-> ""]
    ELSE IF resp.transport = "readfail"
    THEN [err |-> "failed to read response body", token |-> ""]
    ELSE IF resp.body = "garbage"
    THEN [err |-> "failed to parse response", token |-> ""]
    ELSE [err |-> "", token |-> IF resp.body = "token" THEN "REGTOKEN" ELSE ""]

\* getGitHubRegistrationToken, from the endpoint's answer on: the error
\* ("" for nil) and the token returned.
getGitHubRegistrationToken(resp) ==
    IF resp.transport = "fail" THEN [err |-> "failed to make request", token |-> ""]
    ELSE IF resp.transport = "readfail"
    THEN [err |-> "failed to read response body", token |-> ""]
    ELSE IF resp.status # StatusCreated
    THEN [err |-> "GitHub API returned status", token |-> ""]
    ELSE IF resp.body = "garbage"
    THEN [err |-> "failed to parse response", token |-> ""]
    ELSE [err |-> "", token |-> IF resp.body = "token" THEN "REGTOKEN" ELSE ""]

\* strings.ReplaceAll(s, `"`, `\"`) on a sequence of characters.
RECURSIVE EscapeQuotes(_)
EscapeQuotes(s) ==
    IF s = <<>> THEN <<>>
    ELSE (IF Head(s) = "\"" THEN <<"\\", "\"">> ELSE <<Head(s)>>)
         \o EscapeQuotes(Tail(s))

DefaultPreRunnerScript ==
    <<"# Default pre-runner script", "\n", "echo ", "\"",
      "Starting GitHub Actions Runner setup...", "\"", "\n",
      "apt-get update -y", "\n", "apt-get install -y curl jq git">>

DefaultRunnerName == "$(hostname)-runner"

\* generateUserData that renders its arguments as they are.
generateUserDataNoDefaults(token, owner, repo, labels, preScript, name) ==
    [preRunnerLine |->
         <<"echo \"">> \o EscapeQuotes(preScript) \o <<"\" > pre-runner-script.sh">>,
     configLine |->
         "./config.sh --url https://github.com/" \o owner \o "/" \o repo
         \o " --token " \o token \o " --labels " \o labels
         \o " --name \"" \o name \o "\" --work _work --replace"]

\* generateUserData: the two lines of the script that depend on the
\* arguments (the other lines are fixed text).
generateUserData(token, owner, repo, labels, preScript, name) ==
    LET pre == IF preScript = <<>> THEN DefaultPreRunnerScript ELSE preScript
        lbl == IF labels = "" THEN DefaultLabels ELSE labels
        nm == IF name = "" THEN DefaultRunnerName ELSE name
    IN  [preRunnerLine |->
             <<"echo \"">> \o EscapeQuotes(pre) \o <<"\" > pre-runner-script.sh">>,
         configLine |->
             "./config.sh --url https://github.com/" \o owner \o "/" \o repo
             \o " --token " \o token \o " --labels " \o lbl
             \o " --name \"" \o nm \o "\" --work _work --replace"]

\* base64.StdEncoding.EncodeToString
Base64(data) == [encoding |-> "base64", data |-> data]

\* InstanceMarketOptions that sets the ceiling price for any market type.
InstanceMarketOptionsOnPrice(marketType, price) ==
    IF marketType = "spot" \/ price # ""
    THEN <<[marketType |-> "spot",
            spotOptions |-> [spotInstanceType |-> "one-time",
                             maxPrice |-> IF price # "" THEN <<price>> ELSE <<>>]]>>
    ELSE <<>>

\* createEC2Instance: the market options of the launch request; <<>> is a
\* pointer left nil.
InstanceMarketOptions(marketType, price) ==
    IF marketType = "spot"
    THEN <<[marketType |-> "spot",
            spotOptions |-> [spotInstanceType |-> "one-time",
                             maxPrice |-> IF price # "" THEN <<price>> ELSE <<>>]]>>
    ELSE <<>>

Tag(k, v) == [key |-> k, value |-> v]

\* Tags that carries the spot price whenever one was given.
TagsPriceAlways(f) ==
    <<Tag("Name", "GitHub Actions Runner - " \o f.repoOwner \o "/" \o f.repoName),
      Tag("Purpose", "GitHub Actions"),
      Tag("Repository", f.repoOwner \o "/" \o f.repoName),
      Tag("Labels", f.runnerLabels),
      Tag("RunnerName", f.runnerName),
      Tag("InstanceMarketType", f.instanceMarketType)>>
    \o (IF f.spotMaxPrice # ""
        THEN <<Tag("SpotMaxPrice", f.spotMaxPrice)>> ELSE <<>>)

\* createEC2Instance: the tags of the launch request.
Tags(f) ==
    <<Tag("Name", "GitHub Actions Runner - " \o f.repoOwner \o "/" \o f.repoName),
      Tag("Purpose", "GitHub Actions"),
      Tag("Repository", f.repoOwner \o "/" \o f.repoName),
      Tag("Labels", f.runnerLabels),
      Tag("RunnerName", f.runnerName),
      Tag("InstanceMarketType", f.instanceMarketType)>>
    \o (IF f.instanceMarketType = "spot" /\ f.spotMaxPrice # ""
        THEN <<Tag("SpotMaxPrice", f.spotMaxPrice)>> ELSE <<>>)

\* RunInput that renders the user data with the access token.
RunInputWithAccessToken(f, token) ==
    [imageId |-> f.imageID,
     minCount |-> 1,
     maxCount |-> 1,
     instanceType |-> f.instanceType,
     subnetId |-> f.subnetID,
     securityGroupIds |-> <<f.securityGroupID>>,
     userData |-> Base64(generateUserData(f.githubToken, f.repoOwner, f.repoName,
                                          f.runnerLabels, f.preRunnerScript,
                                          f.runnerName)),
     tagSpecifications |-> <<[resourceType |-> "instance", tags |-> Tags(f)]>>,
     instanceMarketOptions |-> InstanceMarketOptions(f.instanceMarketType,
                                                     f.spotMaxPrice)]

\* createEC2Instance: the RunInstancesInput.
RunInput(f, token) ==
    [imageId |-> f.imageID,
     minCount |-> 1,
     maxCount |-> 1,
     instanceType |-> f.instanceType,
     subnetId |-> f.subnetID,
     securityGroupIds |-> <<f.securityGroupID>>,
     userData |-> Base64(generateUserData(token, f.repoOwner, f.repoName,
                                          f.runnerLabels, f.preRunnerScript,
                                          f.runnerName)),
     tagSpecifications |-> <<[resourceType |-> "instance", tags |-> Tags(f)]>>,
     instanceMarketOptions |-> InstanceMarketOptions(f.instanceMarketType,
                                                     f.spotMaxPrice)]

\* createEC2Instance: what is written while the market options are built.
MarketOutput(marketType, price) ==
    IF marketType = "spot"
    THEN {Text("Configuring spot instance...")}
         \cup (IF price # ""
               THEN {Text("Setting spot max price: $" \o price \o "/hour")}
               ELSE {})
    ELSE IF marketType = "on-demand"
    THEN {Text("Configuring on-demand instance...")}
    ELSE {}

\* What is written from the token's arrival to the launch call.
FetchTokenOutput(got) ==
    IF got.err # "" THEN {}
    ELSE Human({Text("Successfully obtained GitHub runner registration token"),
                Text("Token expires at")})
         \cup (IF ~awsCredentials THEN {}
               ELSE {RegionLine}
                    \cup Human(MarketOutput(createFlags.instanceMarketType,
                                            createFlags.spotMaxPrice)
                               \cup {Text("Launching EC2 instance...")}))

\* createEC2Instance: the registration-token request, and createEC2Client.
FetchToken ==
    /\ pc = "token"
    /\ \E resp \in HttpResponses :
         LET got == getGitHubRegistrationToken(resp)
         IN  /\ httpResponse' = resp
             /\ Write(FetchTokenOutput(got))
             /\ calls' = Append(calls,
                    Call("registration-token",
                         IF got.err # "" THEN ErrResp("http") ELSE OkResp(""), 0))
             /\ IF got.err # "" THEN
                    /\ Return(ErrTokenFailed)
                    /\ registrationToken' = registrationToken
                ELSE
                    /\ registrationToken' = got.token
                    /\ IF ~awsCredentials THEN Return(ErrCredentials)
                       ELSE Goto("launch")
    /\ UNCHANGED <<flags, inst, currentState, attempt, termWhen,
                   cmd, createFlags, runInputs>>

\* RunInstances: pairs <<answer, instance state after the call>>.
RunResponses(i) ==
    {<<OkResp("pending"), "pending">>, <<EmptyResp, i>>, <<ErrResp("generic"), i>>}

\* LaunchOutcome that fails the command although an instance was launched.
LaunchOutcomeFailsAfterLaunch(r) ==
    IF r.kind = "err" THEN "fail"
    ELSE IF r.kind = "ok" THEN "fail"
    ELSE "return nil"

\* createEC2Instance: what follows the answer to the launch call.
LaunchOutcome(r) ==
    IF r.kind = "err" THEN "fail"
    ELSE IF r.kind = "ok" THEN "wait"
    ELSE "return nil"

\* createEC2Instance: what is written once the launch has returned an
\* instance.
LaunchOutput(f) ==
    LET spotPriced == f.instanceMarketType = "spot" /\ f.spotMaxPrice # ""
    IN  Machine({Line("Instance ID", NewInstanceID),
                 Line("Runner Name", f.runnerName),
                 Line("Labels", f.runnerLabels),
                 Line("Instance Market Type", f.instanceMarketType)}
                \cup (IF spotPriced
                      THEN {Line("Spot Max Price", f.spotMaxPrice)} ELSE {}))
        \cup Human({Text("EC2 instance created successfully!"),
                    Line("Instance ID", NewInstanceID),
                    Line("Instance Type", f.instanceType),
                    Line("Instance Market Type", f.instanceMarketType),
                    Line("Image ID", f.imageID),
                    Line("Subnet ID", f.subnetID),
                    Line("Security Group ID", f.securityGroupID),
                    Line("Repository", f.repoOwner \o "/" \o f.repoName),
                    Line("Runner Labels", f.runnerLabels),
                    Line("Runner Name", f.runnerName),
                    Text("Waiting for instance to be running...")}
                   \cup (IF spotPriced
                         THEN {Line("Spot Max Price", "$" \o f.spotMaxPrice \o "/hour")}
                         ELSE {}))

\* createEC2Instance: RunInstances and the handling of its answer.
Launch ==
    /\ pc = "launch"
    /\ \E rr \in RunResponses(inst) :
         LET r == rr[1]
             d == LaunchOutcome(r)
         IN  /\ inst' = rr[2]
             /\ Write(IF r.kind = "ok" THEN LaunchOutput(createFlags) ELSE {})
             /\ runInputs' = Append(runInputs, RunInput(createFlags, registrationToken))
             /\ calls' = Append(calls, Call("launch", r, 0))
             /\ CASE d = "fail" -> Return(ErrLaunchFailed)
                  [] d = "wait" -> Goto("wait-running")
                  [] OTHER -> Return("ok")
    /\ UNCHANGED <<flags, currentState, attempt, termWhen,
                   cmd, createFlags, httpResponse, registrationToken>>

RunningWaitMinutes == 5

\* The InstanceRunning waiter: it returns nil once it has seen the instance
\* running, and an error when the 5 minutes are over, when a describe fails
\* or when the instance is in a state it cannot leave for running.
RunningWaiterResponses(i) ==
    IF i = "running" THEN {OkResp("running"), ErrResp("generic")}
    ELSE IF i = "pending" THEN {ErrResp("timeout"), ErrResp("generic")}
    ELSE {ErrResp("failure-state"), ErrResp("generic")}

ErrRunningWait == "failed to wait for running state"

\* RunningWaitResult that makes a failed wait fatal.
RunningWaitResultFatal(r) ==
    IF r.kind = "err" THEN ErrRunningWait ELSE "ok"

\* createEC2Instance: what is returned after the running-state wait.
RunningWaitResult(r) ==
    "ok"

\* WaitRunning that terminates the new instance when the wait fails.
WaitRunningRollsBack ==
    /\ pc = "wait-running"
    /\ \E r \in RunningWaiterResponses(inst) :
         /\ calls' = IF r.kind = "err"
                     THEN calls \o <<Call("wait-running", r, RunningWaitMinutes * 60),
                                     Call("terminate", OkResp("shutting-down"), 0)>>
                     ELSE Append(calls, Call("wait-running", r, RunningWaitMinutes * 60))
         /\ Write({})
         /\ Return(RunningWaitResult(r))
    /\ UNCHANGED <<flags, inst, currentState, attempt, termWhen, createVars>>

\* createEC2Instance: the running-state wait and the return.
WaitRunning ==
    /\ pc = "wait-running"
    /\ \E r \in RunningWaiterResponses(inst) :
         /\ calls' = Append(calls, Call("wait-running", r, RunningWaitMinutes * 60))
         /\ Write(Human(IF r.kind = "err"
                        THEN {Text("Instance created but failed to wait for running state")}
                        ELSE {Text("Instance is now running!"),
                              Text("Check the user data log")}))
         /\ Return(RunningWaitResult(r))
    /\ UNCHANGED <<flags, inst, currentState, attempt, termWhen, createVars>>

\* rootCmd.Execute: the command named on the command line runs.
Next ==
    \/ cmd = "terminate" /\ TerminateCmd /\ UNCHANGED createVars
    \/ InitialDescribe /\ UNCHANGED createVars
    \/ GracefulTerminate /\ UNCHANGED createVars
    \/ ForceTerminate /\ UNCHANGED createVars
    \/ ForceStop /\ UNCHANGED createVars
    \/ ForceTerminateAgain /\ UNCHANGED createVars
    \/ WaitPoll /\ UNCHANGED createVars
    \/ WaitTimeout /\ UNCHANGED createVars
    \/ ProviderStep /\ UNCHANGED createVars
    \/ CreateCmd
    \/ FetchToken
    \/ Launch
    \/ WaitRunning

Spec == Init /\ [][Next]_vars

\* The state of a command that has not started.
NotStarted ==
    /\ httpResponse = NoHttpResponse
    /\ registrationToken = ""
    /\ runInputs = <<>>
    /\ pc = "start"
    /\ currentState = ""
    /\ attempt = 0
    /\ calls = <<>>
    /\ waitBudget = 0
    /\ elapsed = 0
    /\ polls = 0
    /\ lastPoll = NoResp
    /\ termWhen = IF inst = "terminated" THEN "early" ELSE "never"
    /\ result = "running"
    /\ stdout = {}
    /\ exitStatus = NotExited
    /\ stderr = {}

\* Create command lines that pass the flag checks.
OutputCreateFlags ==
    [githubToken : {"ghp_pat"}, imageID : {"ami-1"},
     instanceType : {"t3.micro"}, subnetID : {"subnet-1"},
     securityGroupID : {"sg-1"}, repoOwner : {"octo"},
     repoName : {"repo"},
     runnerLabels : {"", "self-hosted,linux,x64,run-7-1"},
     preRunnerScript : {<<>>},
     runnerName : {"", "runner-7-1"},
     instanceMarketType : {"on-demand", "spot"},
     spotMaxPrice : {"", "0.01"}]

\* Either command, in either output format.
OutputInit ==
    /\ outputFormat \in OutputFormats
    /\ workflow = NoWorkflow
    /\ awsCredentials \in BOOLEAN
    /\ \/ /\ cmd = "terminate"
          /\ createFlags = DefaultCreateFlags
          /\ instanceID = "i-1"
          /\ forceTerminate \in BOOLEAN
          /\ terminationTimeout \in {MinTimeout, DefaultTimeout}
          /\ inst \in StateNames \cup {Absent}
       \/ /\ cmd = "create"
          /\ createFlags \in OutputCreateFlags
          /\ instanceID = ""
          /\ forceTerminate = FALSE
          /\ terminationTimeout = DefaultTimeout
          /\ inst = Absent
    /\ NotStarted

\* The commands with the --output-format flag drawn from both formats.
OutputSpec == OutputInit /\ [][Next]_vars

(***************************************************************************)
(* The composite action's start mode (action.yml): it derives the labels   *)
(* and the runner name from the workflow run and runs the create command.  *)
(***************************************************************************)
MaxRunNumber == 11
MaxRunAttempt == 11

\* date +%s
Epochs == {"1700000000", "1700000060"}

\* github.run_number, github.run_attempt and inputs.labels.
WorkflowRuns ==
    [runNumber : 1..MaxRunNumber, runAttempt : 1..MaxRunAttempt,
     labels : {DefaultLabels, "gpu"}]

\* UniqueLabel with the two numbers run together.
UniqueLabelNoSeparator(n, a) ==
    "run-" \o ToString(n) \o ToString(a)

\* UNIQUE_LABEL="run-${{ github.run_number }}-${{ github.run_attempt }}"
UniqueLabel(n, a) ==
    "run-" \o ToString(n) \o "-" \o ToString(a)

\* RUNNER_NAME="runner-${{ github.run_number }}-${{ github.run_attempt }}-$(date +%s)"
StartRunnerName(n, a, epoch) ==
    "runner-" \o ToString(n) \o "-" \o ToString(a) \o "-" \o epoch

\* The command line of the start mode.
StartFlags(w, epoch) ==
    [githubToken |-> "ghp_pat", imageID |-> "ami-1", instanceType |-> "t3.micro",
     subnetID |-> "subnet-1", securityGroupID |-> "sg-1", repoOwner |-> "octo",
     repoName |-> "repo",
     runnerLabels |-> w.labels \o "," \o UniqueLabel(w.runNumber, w.runAttempt),
     preRunnerScript |-> <<>>,
     runnerName |-> StartRunnerName(w.runNumber, w.runAttempt, epoch),
     instanceMarketType |-> "on-demand", spotMaxPrice |-> ""]

\* A workflow run about to execute the action in start mode.
StartInit ==
    /\ cmd = "create"
    /\ workflow \in WorkflowRuns
    /\ createFlags = DefaultCreateFlags
    /\ outputFormat = ""
    /\ awsCredentials \in BOOLEAN
    /\ instanceID = ""
    /\ forceTerminate = FALSE
    /\ terminationTimeout = DefaultTimeout
    /\ inst = Absent
    /\ httpResponse = NoHttpResponse
    /\ registrationToken = ""
    /\ runInputs = <<>>
    /\ pc = "action-start"
    /\ currentState = ""
    /\ attempt = 0
    /\ calls = <<>>
    /\ waitBudget = 0
    /\ elapsed = 0
    /\ polls = 0
    /\ lastPoll = NoResp
    /\ termWhen = "never"
    /\ result = "running"
    /\ stdout = {}
    /\ exitStatus = NotExited
    /\ stderr = {}

\* Execute GitHub Runner Action, mode start: the create command line.
StartMode ==
    /\ pc = "action-start"
    /\ \E epoch \in Epochs : createFlags' = StartFlags(workflow, epoch)
    /\ outputFormat' = "github-actions"
    /\ pc' = "start"
    /\ UNCHANGED <<instanceID, forceTerminate, terminationTimeout, awsCredentials,
                   workflow, inst, currentState, attempt, calls, waitVars,
                   termWhen, result, cmd, httpResponse, registrationToken,
                   runInputs, stdout, exitVars>>

StartNext ==
    \/ StartMode
    \/ CreateCmd
    \/ FetchToken
    \/ Launch
    \/ WaitRunning
    \/ ProviderStep /\ UNCHANGED createVars

\* The action in start mode.
StartSpec == StartInit /\ [][StartNext]_vars

\* The budgets waitForInstanceTermination is called with.
WaitTimeouts == {MinTimeout, DefaultTimeout}

\* waitForInstanceTermination at its call, for an instance in any state.
WaitInit ==
    /\ cmd = "terminate"
    /\ createFlags = DefaultCreateFlags
    /\ httpResponse = NoHttpResponse
    /\ registrationToken = ""
    /\ runInputs = <<>>
    /\ instanceID = "i-1"
    /\ forceTerminate \in BOOLEAN
    /\ terminationTimeout \in WaitTimeouts
    /\ awsCredentials = TRUE
    /\ inst \in StateNames \cup {Absent}
    /\ pc = "wait"
    /\ currentState = ""
    /\ attempt = 0
    /\ calls = <<>>
    /\ waitBudget = IF forceTerminate THEN ForceTimeout(terminationTimeout)
                    ELSE terminationTimeout
    /\ elapsed = 0
    /\ polls = 0
    /\ lastPoll = NoResp
    /\ termWhen = IF inst = "terminated" THEN "early" ELSE "never"
    /\ result = "running"
    /\ outputFormat = ""
    /\ workflow = NoWorkflow
    /\ stdout = {}
    /\ exitStatus = NotExited
    /\ stderr = {}

WaitNext ==
    \/ WaitPoll /\ UNCHANGED createVars
    \/ WaitTimeout /\ UNCHANGED createVars
    \/ ProviderStep /\ UNCHANGED createVars

\* waitForInstanceTermination on its own.
WaitSpec == WaitInit /\ [][WaitNext]_vars

\* A terminate command line with an instance id, or waitForInstanceTermination
\* at its call for an instance in any state.
TerminationInit ==
    \/ /\ TerminateInit
       /\ instanceID = "i-1"
       /\ terminationTimeout \in WaitTimeouts
    \/ WaitInit

\* The steps of the controller: each is a piece of straight-line code around
\* one provider call, timer or ticker, and is taken once that call returns.
ControllerStep ==
    \/ cmd = "terminate" /\ TerminateCmd /\ UNCHANGED createVars
    \/ InitialDescribe /\ UNCHANGED createVars
    \/ GracefulTerminate /\ UNCHANGED createVars
    \/ ForceTerminate /\ UNCHANGED createVars
    \/ ForceStop /\ UNCHANGED createVars
    \/ ForceTerminateAgain /\ UNCHANGED createVars
    \/ WaitPoll /\ UNCHANGED createVars
    \/ WaitTimeout /\ UNCHANGED createVars

TerminationNext ==
    \/ ControllerStep
    \/ ProviderStep /\ UNCHANGED createVars

\* The terminate command when every provider call returns and the clock
\* advances; the provider itself is free to leave the instance as it is.
TerminationSpec ==
    TerminationInit /\ [][TerminationNext]_vars /\ WF_vars(ControllerStep)

(***************************************************************************)
(* Properties.                                                             *)
(***************************************************************************)
NumCalls(op) == Len(SelectSeq(calls, LAMBDA c : c.op = op))
WaitEntered == waitBudget > 0
Returned == pc = "done"

\* The result a terminal wait can end with, given its latest poll.
IsWaitResult ==
    \/ result = ErrWaitTimeout
    \/ /\ polls > 0
       /\ \/ result = "ok" /\ PollDecision(lastPoll) = "success"
          \/ result = ErrWaitDescribe /\ PollDecision(lastPoll) = "error"
          \/ result = ErrUnexpectedState /\ PollDecision(lastPoll) = "unexpected"

\* C1: when the initial describe reports terminated, terminate has returned
\* success at once: the describe is its only provider call (no terminate call,
\* no stop call) and no terminal wait was entered, whatever the force flag.
C1_TerminatedIsNoOp ==
    currentState = "terminated" =>
        /\ Returned
        /\ result = "ok"
        /\ NumCalls("terminate") = 0
        /\ NumCalls("stop") = 0
        /\ Len(calls) = 1
        /\ ~WaitEntered
        /\ polls = 0

C1_Witness ==
    /\ currentState = "terminated"
    /\ forceTerminate
    /\ Returned
    /\ result = "ok"

\* C2: when the initial describe reports shutting-down, no terminate call and
\* no stop call is ever issued, the terminal wait is entered directly, and
\* what the invocation returns is what that wait returns.
C2_ShuttingDownGoesToWait ==
    currentState = "shutting-down" =>
        /\ NumCalls("terminate") = 0
        /\ NumCalls("stop") = 0
        /\ Len(calls) = 1
        /\ WaitEntered
        /\ pc \in {"wait", "done"}
        /\ Returned => IsWaitResult

C2_Witness ==
    /\ currentState = "shutting-down"
    /\ Returned
    /\ result = "ok"
    /\ polls > 1

\* C3: when the initial describe reports pending, or any state other than
\* terminated, shutting-down, running, stopping and stopped, terminate has
\* failed with the invalid-state error: no terminate call, no stop call, no
\* terminal wait, whatever the force flag.
C3_PendingIsRefused ==
    (currentState # "" /\ currentState \notin
        {"terminated", "shutting-down", "running", "stopping", "stopped"}) =>
        /\ Returned
        /\ result = ErrInvalidState
        /\ NumCalls("terminate") = 0
        /\ NumCalls("stop") = 0
        /\ Len(calls) = 1
        /\ ~WaitEntered

C3_Witness ==
    /\ currentState = "pending"
    /\ forceTerminate
    /\ result = ErrInvalidState

\* The position in calls of the k-th terminate call (0 when there is none).
TerminateAt(k) ==
    LET at == {i \in DOMAIN calls :
                 /\ calls[i].op = "terminate"
                 /\ Cardinality({j \in 1..i : calls[j].op = "terminate"}) = k}
    IN  IF at = {} THEN 0 ELSE CHOOSE i \in at : TRUE

\* C4: in the graceful path at most 3 terminate calls are issued; a generic
\* provider error on attempt 1 or 2 is followed by a back-off and another
\* attempt, on attempt 3 by the termination error; a state-conflict error on
\* any attempt is the last call of the invocation, which fails at once.
C4_GracefulRetryPolicy ==
    ~forceTerminate =>
        /\ NumCalls("terminate") <= 3
        /\ \A k \in 1..NumCalls("terminate") :
             LET i == TerminateAt(k)
                 r == calls[i].resp
             IN  r.kind = "err" =>
                   IF r.code = "conflict"
                   THEN /\ i = Len(calls)
                        /\ Returned
                        /\ result = ErrStateConflict
                   ELSE IF k < 3
                   THEN /\ Len(calls) > i
                        /\ calls[i + 1].op = "sleep"
                        /\ \/ pc = "graceful" /\ Len(calls) = i + 1
                           \/ TerminateAt(k + 1) = i + 2
                   ELSE /\ i = Len(calls)
                        /\ Returned
                        /\ result = ErrTerminateFailed

C4_Witness ==
    /\ ~forceTerminate
    /\ NumCalls("terminate") = 3
    /\ calls[TerminateAt(1)].resp = ErrResp("generic")
    /\ calls[TerminateAt(2)].resp = ErrResp("generic")
    /\ calls[TerminateAt(3)].resp = ErrResp("conflict")
    /\ result = ErrStateConflict

\* C5: in the forced path, a terminal wait entered after a terminate call
\* (the first or the one after the stop) has the budget
\* max(floor(timeout / 2), 120): 150 for 300, 120 for 60, within 120..1800.
C5_ForcedWaitBudget ==
    (forceTerminate /\ WaitEntered /\ NumCalls("terminate") > 0) =>
        /\ calls[Len(calls)].op = "terminate"
        /\ calls[Len(calls)].resp.kind = "ok"
        /\ waitBudget = Max(terminationTimeout \div 2, 120)
        /\ waitBudget \in 120..1800
        /\ terminationTimeout \in 60..3600
        /\ terminationTimeout = 300 => waitBudget = 150
        /\ terminationTimeout = 60 => waitBudget = 120

C5_Witness ==
    /\ forceTerminate
    /\ WaitEntered
    /\ NumCalls("terminate") = 2
    /\ NumCalls("stop") = 1
    /\ terminationTimeout = 60
    /\ waitBudget = 120

\* C6: a timeout below 60 or above 3600 is rejected with an error before any
\* provider call; 60 and 3600 pass the timeout check.
C6_TimeoutValidation ==
    pc # "start" =>
        /\ (terminationTimeout < 60 \/ terminationTimeout > 3600) =>
              /\ Returned
              /\ result \in {ErrInstanceIDRequired, ErrTimeoutTooSmall, ErrTimeoutTooLarge}
              /\ instanceID # "" =>
                    result = IF terminationTimeout < 60
                             THEN ErrTimeoutTooSmall ELSE ErrTimeoutTooLarge
              /\ calls = <<>>
              /\ ~WaitEntered
        /\ (terminationTimeout \in {60, 3600} /\ instanceID # "" /\ awsCredentials) =>
              /\ result \notin {ErrTimeoutTooSmall, ErrTimeoutTooLarge}
              /\ pc = "describe" \/ Len(calls) > 0

C6_Witness ==
    /\ terminationTimeout = 3601
    /\ instanceID # ""
    /\ Returned
    /\ result = ErrTimeoutTooLarge

\* C7: a describe of the terminal wait that the provider answers with its
\* not-found error ends the wait with success.
C7_NotFoundEndsWaitWithSuccess ==
    (polls > 0 /\ lastPoll = ErrResp("notfound")) =>
        /\ Returned
        /\ result = "ok"

\* C8: when the initial describe fails or returns no instance, terminate has
\* failed with a not-found error; the describe is its only provider call and
\* no terminal wait was entered.
C8_UnknownInstanceFails ==
    (Len(calls) > 0 /\ calls[1].op = "describe"
        /\ calls[1].resp.kind \in {"err", "empty"}) =>
        /\ cmd = "terminate"
        /\ Returned
        /\ result \in {ErrFindFailed, ErrNotFound}
        /\ NumCalls("terminate") = 0
        /\ NumCalls("stop") = 0
        /\ Len(calls) = 1
        /\ ~WaitEntered
        /\ polls = 0

C8_Witness ==
    /\ inst = Absent
    /\ Len(calls) = 1
    /\ calls[1] = Call("describe", ErrResp("notfound"), 0)
    /\ result = ErrFindFailed

\* The forced path once the stop call has been answered, after a first
\* terminate call that yielded no terminating instance.
ForcedFallbackTaken ==
    /\ forceTerminate
    /\ Len(calls) >= 2
    /\ calls[2].op = "terminate"
    /\ calls[2].resp.kind # "ok"
    /\ pc # "stop"

IsForceTerminationError(r) == r \in {ErrForceFailed, ErrForceUnexpected}

\* What follows the second terminate call, issued at position i of calls.
SecondTerminateAt(i) ==
    pc # "force2" =>
        /\ Len(calls) = i
        /\ calls[i].op = "terminate"
        /\ NumCalls("terminate") = 2
        /\ calls[i].resp.kind # "ok" =>
              /\ Returned
              /\ IsForceTerminationError(result)
              /\ ~WaitEntered

\* C9 as stated: after a first terminate call that yields no terminating
\* instance, the forced path issues a forced stop, sleeps the 10 s grace
\* period and retries terminate; a failure of the retry is the
\* force-termination error.
C9_StopGraceTerminate ==
    ForcedFallbackTaken =>
        /\ calls[3].op = "stop"
        /\ Len(calls) >= 4
        /\ calls[4] = Call("sleep", NoResp, 10)
        /\ SecondTerminateAt(5)

\* C9 as amended: the grace sleep follows the stop call exactly when that
\* call succeeded; after a failed stop the terminate is retried at once.
C9_StopGraceOnlyAfterStopSucceeded ==
    ForcedFallbackTaken =>
        /\ calls[3].op = "stop"
        /\ NumCalls("stop") = 1
        /\ IF calls[3].resp.kind = "err"
           THEN /\ NumCalls("sleep") = 0
                /\ SecondTerminateAt(4)
           ELSE /\ Len(calls) >= 4
                /\ calls[4] = Call("sleep", NoResp, 10)
                /\ NumCalls("sleep") = 1
                /\ SecondTerminateAt(5)

C9_Witness ==
    /\ ForcedFallbackTaken
    /\ calls[3].resp.kind = "err"
    /\ Len(calls) = 4
    /\ calls[4].resp.kind = "err"
    /\ result = ErrForceFailed

\* Scenario A's terminate: graceful, default timeout, instance running, the
\* first terminate call accepted, the describes of the wait answered, and the
\* provider's record terminated (and still there) when terminate returns.
ScenarioATerminate ==
    /\ Returned
    /\ ~forceTerminate
    /\ terminationTimeout = 300
    /\ currentState = "running"
    /\ Len(calls) >= 2
    /\ calls[2].op = "terminate"
    /\ calls[2].resp.kind = "ok"
    /\ inst = "terminated"
    /\ lastPoll.kind # "err"

\* C10 as stated: if the instance reaches terminated within the budget, the
\* invocation has issued exactly one terminate call and returns success.
C10_TerminatedWithinBudget ==
    (ScenarioATerminate /\ termWhen \in {"early", "late"}) =>
        /\ NumCalls("terminate") = 1
        /\ result = "ok"

\* C10 as amended: if the instance reaches terminated early enough for a tick
\* that precedes the end of the budget to observe it, the invocation has
\* issued exactly one terminate call and returns success.
C10_TerminatedBeforeLastTick ==
    (ScenarioATerminate /\ termWhen = "early") =>
        /\ NumCalls("terminate") = 1
        /\ NumCalls("stop") = 0
        /\ WaitEntered
        /\ waitBudget = 300
        /\ result = "ok"
        /\ lastPoll = OkResp("terminated")

C10_Witness ==
    /\ ScenarioATerminate
    /\ termWhen = "early"
    /\ result = "ok"
    /\ polls > 2

(***************************************************************************)
(* The create command, and the budgets of the terminal wait.               *)
(***************************************************************************)
\* The position in calls of the launch call (0 when there is none).
LaunchAt ==
    IF NumCalls("launch") = 0 THEN 0
    ELSE CHOOSE i \in DOMAIN calls : calls[i].op = "launch"

TokenAcquisitionFailed ==
    /\ httpResponse # NoHttpResponse
    /\ \/ httpResponse.transport # "ok"
       \/ httpResponse.status # 201
       \/ httpResponse.body = "garbage"

\* C11: when the registration-token acquisition fails (the request fails in
\* transport, the status is not the success status, or the body does not
\* decode), create has returned the token error and there is no launch call;
\* a launch call is always preceded by a token request that succeeded.
C11_NoLaunchWithoutToken ==
    /\ TokenAcquisitionFailed =>
          /\ Returned
          /\ result = ErrTokenFailed
          /\ NumCalls("launch") = 0
          /\ runInputs = <<>>
    /\ LaunchAt > 0 =>
          /\ \E j \in 1..(LaunchAt - 1) :
                /\ calls[j].op = "registration-token"
                /\ calls[j].resp.kind = "ok"
          /\ ~TokenAcquisitionFailed
          /\ httpResponse.transport = "ok"

C11_Witness ==
    /\ cmd = "create"
    /\ httpResponse.transport = "ok"
    /\ httpResponse.status = 401
    /\ httpResponse.body = "token"
    /\ Returned
    /\ result = ErrTokenFailed

\* C12 as stated: when the launch call returns no error and no instance,
\* create fails with the launch error.
C12_EmptyLaunchIsAnError ==
    (LaunchAt > 0 /\ calls[LaunchAt].resp.kind = "empty" /\ Returned) =>
        result = ErrLaunchFailed

\* C13: once the launch call has returned an instance, create returns success
\* whatever the running-state wait ends with (running seen, 5 minutes over,
\* describe failed), and it issues no terminate call and no stop call.
C13_RunningWaitIsNotFatal ==
    (LaunchAt > 0 /\ calls[LaunchAt].resp.kind = "ok") =>
        /\ NumCalls("terminate") = 0
        /\ NumCalls("stop") = 0
        /\ Returned => result = "ok"
        /\ NumCalls("wait-running") > 0 =>
              /\ Returned
              /\ calls[Len(calls)].op = "wait-running"
        /\ pc \in {"wait-running", "done"}

C13_Witness ==
    /\ LaunchAt > 0
    /\ calls[LaunchAt].resp.kind = "ok"
    /\ Len(calls) = LaunchAt + 1
    /\ calls[Len(calls)].op = "wait-running"
    /\ calls[Len(calls)].resp = ErrResp("timeout")
    /\ inst = "pending"
    /\ Returned
    /\ result = "ok"

\* C14: the launch request carries one-time spot market options exactly when
\* the market type is spot; those options carry the ceiling price exactly
\* when a price was given; an on-demand request carries no market options,
\* price or no price.
C14_MarketOptions ==
    \A i \in DOMAIN runInputs :
        LET o == runInputs[i].instanceMarketOptions
        IN  /\ (o # <<>>) <=> (createFlags.instanceMarketType = "spot")
            /\ createFlags.instanceMarketType = "on-demand" => o = <<>>
            /\ o # <<>> =>
                  /\ Len(o) = 1
                  /\ o[1].marketType = "spot"
                  /\ o[1].spotOptions.spotInstanceType = "one-time"
                  /\ (o[1].spotOptions.maxPrice # <<>>)
                        <=> (createFlags.spotMaxPrice # "")
                  /\ o[1].spotOptions.maxPrice # <<>> =>
                        o[1].spotOptions.maxPrice = <<createFlags.spotMaxPrice>>

C14_Witness ==
    /\ Len(runInputs) = 1
    /\ createFlags.instanceMarketType = "spot"
    /\ createFlags.spotMaxPrice = "0.01"
    /\ runInputs[1].instanceMarketOptions # <<>>
    /\ runInputs[1].instanceMarketOptions[1].spotOptions.maxPrice = <<"0.01">>

AlwaysTagKeys ==
    {"Name", "Purpose", "Repository", "Labels", "RunnerName", "InstanceMarketType"}

TagKeys(tags) == {tags[k].key : k \in DOMAIN tags}

TagValue(tags, key) ==
    LET k == CHOOSE k \in DOMAIN tags : tags[k].key = key
    IN  tags[k].value

\* C15: the tags travel in the launch call itself (create issues no other
\* provider call than the launch and the running-state wait), on the instance
\* resource; the tag set has Name, Purpose, Repository, Labels and RunnerName,
\* InstanceMarketType with the requested market type, and SpotMaxPrice exactly
\* when the market type is spot and a price was given.
C15_TagsInLaunchCall ==
    /\ cmd = "create" =>
          /\ \A i \in DOMAIN calls :
                calls[i].op \in {"registration-token", "launch", "wait-running"}
          /\ Len(runInputs) = NumCalls("launch")
          /\ Len(runInputs) <= 1
    /\ \A i \in DOMAIN runInputs :
          LET specs == runInputs[i].tagSpecifications
          IN  /\ Len(specs) = 1
              /\ specs[1].resourceType = "instance"
              /\ LET tags == specs[1].tags
                     spotPriced == /\ createFlags.instanceMarketType = "spot"
                                   /\ createFlags.spotMaxPrice # ""
                 IN  /\ Cardinality(TagKeys(tags)) = Len(tags)
                     /\ AlwaysTagKeys \subseteq TagKeys(tags)
                     /\ TagKeys(tags) \subseteq AlwaysTagKeys \cup {"SpotMaxPrice"}
                     /\ TagValue(tags, "InstanceMarketType")
                           = createFlags.instanceMarketType
                     /\ TagValue(tags, "Labels") = createFlags.runnerLabels
                     /\ TagValue(tags, "RunnerName") = createFlags.runnerName
                     /\ TagValue(tags, "Purpose") = "GitHub Actions"
                     /\ ("SpotMaxPrice" \in TagKeys(tags)) <=> spotPriced
                     /\ spotPriced =>
                           TagValue(tags, "SpotMaxPrice") = createFlags.spotMaxPrice

C15_Witness ==
    /\ Len(runInputs) = 1
    /\ NumCalls("launch") = 1
    /\ createFlags.instanceMarketType = "spot"
    /\ createFlags.spotMaxPrice = "0.01"
    /\ "SpotMaxPrice" \in TagKeys(runInputs[1].tagSpecifications[1].tags)
    /\ calls[Len(calls)].op = "launch"
    /\ calls[Len(calls)].resp.kind = "ok"

\* C16 as stated: a terminal wait has returned once the timeout the caller
\* passed has elapsed since the wait started, for either force value.
C16_WaitBoundedByTimeout ==
    (cmd = "terminate" /\ WaitEntered) =>
        /\ pc = "wait" => elapsed <= terminationTimeout
        /\ elapsed <= terminationTimeout

\* Whether the terminal wait was entered from the forced path, after a
\* terminate call that yielded a terminating instance.
WaitAfterForcedTerminate ==
    /\ forceTerminate
    /\ NumCalls("terminate") > 0

\* The budget terminateEC2Instance gives the terminal wait it has entered.
EffectiveBudget ==
    IF WaitAfterForcedTerminate
    THEN Max(terminationTimeout \div 2, ForceFloor)
    ELSE terminationTimeout

\* C16 as amended: a terminal wait is bounded by its effective budget, counted
\* on the wait's own timer: the requested timeout in the graceful path and in
\* the shutting-down path, max(timeout/2, 120) after a forced terminate call
\* (more than the requested timeout when that is below 120); the wait never
\* runs past the budget and its timeout error comes exactly at the budget.
C16_WaitBoundedByEffectiveBudget ==
    (cmd = "terminate" /\ WaitEntered) =>
        /\ waitBudget = EffectiveBudget
        /\ elapsed <= EffectiveBudget
        /\ elapsed <= Max(terminationTimeout, ForceFloor)
        /\ pc \in {"wait", "done"}
        /\ (Returned /\ result = ErrWaitTimeout) => elapsed = EffectiveBudget
        /\ polls * TickSeconds <= EffectiveBudget

C16_Witness ==
    /\ cmd = "terminate"
    /\ forceTerminate
    /\ terminationTimeout = MinTimeout
    /\ WaitEntered
    /\ elapsed > terminationTimeout
    /\ Returned
    /\ result = ErrWaitTimeout
    /\ elapsed = ForceFloor

\* C17 as stated: with the force flag set, every terminal wait has the halved
\* budget max(timeout/2, 120), the wait entered for an instance first seen
\* in shutting-down included.
C17_ForceHalvesEveryWait ==
    (cmd = "terminate" /\ forceTerminate /\ WaitEntered) =>
        waitBudget = Max(terminationTimeout \div 2, ForceFloor)

\* C18: in the graceful path, a terminate call that yields a terminating
\* instance is the last terminate call (and the last call before the wait's
\* polls), and the terminal wait is entered with the full requested timeout.
C18_GracefulWaitsFullTimeout ==
    \A i \in DOMAIN calls :
        (/\ cmd = "terminate"
         /\ ~forceTerminate
         /\ calls[i].op = "terminate"
         /\ calls[i].resp.kind = "ok") =>
            /\ i = Len(calls)
            /\ NumCalls("stop") = 0
            /\ NumCalls("terminate") <= maxRetries
            /\ WaitEntered
            /\ waitBudget = terminationTimeout
            /\ pc \in {"wait", "done"}
            /\ Returned => IsWaitResult

C18_Witness ==
    /\ cmd = "terminate"
    /\ ~forceTerminate
    /\ terminationTimeout = 2 * ForceFloor + 1
    /\ NumCalls("terminate") = 2
    /\ calls[Len(calls)].op = "terminate"
    /\ calls[Len(calls)].resp.kind = "ok"
    /\ waitBudget = terminationTimeout
    /\ polls > 0
    /\ pc = "wait"

\* C19: what a poll of the terminal wait observed decides its outcome:
\* terminated ends the wait with success; shutting-down, stopping, running,
\* pending and stopped leave the wait polling (until its timer fires); any
\* other state ends the wait with the unexpected-state error at that poll.
C19_PollOutcome ==
    (polls > 0 /\ lastPoll.kind = "ok") =>
        /\ lastPoll.state = "terminated" => (Returned /\ result = "ok")
        /\ lastPoll.state \in {"shutting-down", "stopping", "running",
                               "pending", "stopped"} =>
              \/ pc = "wait" /\ result = "running"
              \/ Returned /\ result = ErrWaitTimeout /\ elapsed = waitBudget
        /\ lastPoll.state \notin {"running", "pending", "stopping", "stopped",
                                  "shutting-down", "terminated"} =>
              (Returned /\ result = ErrUnexpectedState
                  /\ elapsed = polls * TickSeconds)

C19_Witness ==
    /\ polls >= 2
    /\ lastPoll = OkResp("other")
    /\ Returned
    /\ result = ErrUnexpectedState
    /\ elapsed < waitBudget

\* C20 as stated: with force = false a terminate invocation issues no stop
\* call and never fails with the force-termination error, whatever the
\* provider answers.
C20_ForceErrorOnlyWhenForced ==
    (cmd = "terminate" /\ ~forceTerminate) =>
        /\ NumCalls("stop") = 0
        /\ ~IsForceTerminationError(result)

(***************************************************************************)
(* Output, payload, exit status, and the order of the provider calls.      *)
(***************************************************************************)
StatusKeys ==
    {"Instance ID", "Runner Name", "Labels", "Instance Market Type",
     "Spot Max Price", "Termination Status"}

\* C21 as stated: in output format github-actions the only lines on standard
\* output are the status lines Instance ID, Runner Name, Labels, Instance
\* Market Type, Spot Max Price and Termination Status, on every path of
\* create and of terminate.
C21_OnlyStatusLines ==
    outputFormat = "github-actions" =>
        \A l \in stdout : l.key \in StatusKeys

AccessTokens == {"ghp_pat", "ghp_other"}

\* C22: the launch request (user data, tags and the rest) does not depend on
\* the access token: the request sent is the one any other access token
\* would have produced with the same registration token and the same other
\* flags.
C22_AccessTokenNotInRequest ==
    \A i \in DOMAIN runInputs :
        \A t \in AccessTokens :
            LET other == [createFlags EXCEPT !.githubToken = t]
                sent == RunInput(other, registrationToken)
            IN  /\ runInputs[i].userData = sent.userData
                /\ runInputs[i].tagSpecifications = sent.tagSpecifications
                /\ runInputs[i] = sent

C22_Witness ==
    /\ Len(runInputs) = 1
    /\ createFlags.githubToken = "ghp_pat"
    /\ registrationToken = "REGTOKEN"
    /\ calls[Len(calls)].op = "launch"
    /\ calls[Len(calls)].resp.kind = "ok"

\* The optional arguments of generateUserData with the documented defaults
\* in place of the empty ones.
EffectiveLabels(f) ==
    IF f.runnerLabels = "" THEN "self-hosted,linux,x64" ELSE f.runnerLabels

EffectiveRunnerName(f) ==
    IF f.runnerName = "" THEN "$(hostname)-runner" ELSE f.runnerName

EffectivePreRunnerScript(f) ==
    IF f.preRunnerScript = <<>> THEN DefaultPreRunnerScript ELSE f.preRunnerScript

\* C23: the payload rendered for a create run equals the payload rendered
\* with every empty optional argument replaced by its default (labels
\* self-hosted,linux,x64, runner name $(hostname)-runner, the update/install
\* pre-runner script), and its registration line carries those values.
C23_EmptyArgumentsRenderAsDefaults ==
    \A i \in DOMAIN runInputs :
        LET f == createFlags
            rendered == runInputs[i].userData.data
        IN  /\ rendered = generateUserData(registrationToken, f.repoOwner,
                                           f.repoName, EffectiveLabels(f),
                                           EffectivePreRunnerScript(f),
                                           EffectiveRunnerName(f))
            /\ rendered = generateUserData(registrationToken, f.repoOwner,
                                           f.repoName, f.runnerLabels,
                                           f.preRunnerScript, f.runnerName)
            /\ rendered.configLine =
                  "./config.sh --url https://github.com/" \o f.repoOwner \o "/"
                  \o f.repoName \o " --token " \o registrationToken
                  \o " --labels " \o EffectiveLabels(f)
                  \o " --name \"" \o EffectiveRunnerName(f)
                  \o "\" --work _work --replace"
            /\ rendered.preRunnerLine =
                  <<"echo \"">> \o EscapeQuotes(EffectivePreRunnerScript(f))
                  \o <<"\" > pre-runner-script.sh">>

C23_Witness ==
    /\ Len(runInputs) = 1
    /\ createFlags.runnerLabels = ""
    /\ createFlags.runnerName = ""
    /\ createFlags.preRunnerScript = <<>>
    /\ registrationToken = "REGTOKEN"
    /\ runInputs[1].userData.data.configLine =
          "./config.sh --url https://github.com/octo/repo --token REGTOKEN --labels self-hosted,linux,x64 --name \"$(hostname)-runner\" --work _work --replace"

CreateOps == {"registration-token", "launch", "wait-running"}
TerminateOps == {"describe", "terminate", "stop", "sleep"}

\* C24: one invocation does one of the two operations: a create run issues
\* no terminate call and no stop call (and enters no terminal wait), a
\* terminate run issues no registration-token request and no launch call.
C24_LaunchXorTerminate ==
    /\ cmd = "create" =>
          /\ NumCalls("terminate") = 0
          /\ NumCalls("stop") = 0
          /\ \A i \in DOMAIN calls : calls[i].op \in CreateOps
          /\ ~WaitEntered
          /\ polls = 0
    /\ cmd = "terminate" =>
          /\ NumCalls("registration-token") = 0
          /\ NumCalls("launch") = 0
          /\ \A i \in DOMAIN calls : calls[i].op \in TerminateOps
          /\ httpResponse = NoHttpResponse
          /\ runInputs = <<>>

C24_Witness ==
    /\ cmd = "create"
    /\ NumCalls("registration-token") = 1
    /\ NumCalls("launch") = 1
    /\ NumCalls("wait-running") = 1
    /\ calls[Len(calls)].resp.kind = "err"
    /\ Returned

\* C25: every error create or terminate returns (validation, credentials,
\* token, provider, timeout) ends the process with exit status 1 and the
\* error text on the error stream; a command that returns no error exits with
\* status 0 and writes nothing to the error stream.
C25_ExitStatus ==
    /\ Returned =>
          /\ result # "running"
          /\ result # "ok" =>
                /\ exitStatus = 1
                /\ ("Error: " \o result) \in stderr
          /\ result = "ok" =>
                /\ exitStatus = 0
                /\ stderr = {}
    /\ ~Returned =>
          /\ exitStatus = NotExited
          /\ stderr = {}

C25_Witness ==
    /\ cmd = "terminate"
    /\ Returned
    /\ result = ErrWaitTimeout
    /\ exitStatus = 1
    /\ stderr = {"Error: timeout waiting for instance to terminate"}

\* The Labels tag of launch request i.
LabelsTag(i) == TagValue(runInputs[i].tagSpecifications[1].tags, "Labels")

\* C26: in start mode the label set passed to create is the static label set
\* followed by run-<run number>-<run attempt>, it is the label set the
\* instance is launched with, and no other (run number, run attempt) pair
\* gets the same unique label.
C26_UniqueLabelPerRun ==
    pc # "action-start" =>
        LET n == workflow.runNumber
            a == workflow.runAttempt
            mine == "run-" \o ToString(n) \o "-" \o ToString(a)
        IN  /\ UniqueLabel(n, a) = mine
            /\ createFlags.runnerLabels = workflow.labels \o "," \o mine
            /\ \A i \in DOMAIN runInputs :
                  LabelsTag(i) = workflow.labels \o "," \o mine
            /\ \A n2 \in 1..MaxRunNumber, a2 \in 1..MaxRunAttempt :
                  (n2 # n \/ a2 # a) => UniqueLabel(n2, a2) # mine

C26_Witness ==
    /\ workflow.runNumber = 1
    /\ workflow.runAttempt = 11
    /\ Len(runInputs) = 1
    /\ LabelsTag(1) = "self-hosted,linux,x64,run-1-11"
    /\ outputFormat = "github-actions"

\* A describe answer that reports the instance terminated or not found.
ReportsGone(r) ==
    \/ r = OkResp("terminated")
    \/ r.kind = "err" /\ r.code = "notfound"

\* C27: terminate returns success only if a describe call of the invocation
\* reported the instance terminated or not found: the initial describe, or
\* the latest poll of the terminal wait; a successful terminate call is
\* always followed by such a poll before success is returned.
C27_SuccessOnlyAfterGone ==
    (cmd = "terminate" /\ Returned /\ result = "ok") =>
        /\ \/ /\ Len(calls) = 1
              /\ calls[1].op = "describe"
              /\ ReportsGone(calls[1].resp)
              /\ ~WaitEntered
           \/ /\ WaitEntered
              /\ polls > 0
              /\ ReportsGone(lastPoll)
        /\ NumCalls("terminate") > 0 =>
              /\ WaitEntered
              /\ polls > 0
              /\ ReportsGone(lastPoll)
              /\ elapsed >= TickSeconds

C27_Witness ==
    /\ cmd = "terminate"
    /\ Returned
    /\ result = "ok"
    /\ NumCalls("terminate") = 1
    /\ calls[Len(calls)].resp = OkResp("shutting-down")
    /\ polls > 1
    /\ lastPoll = OkResp("terminated")

\* The operations of calls, in order.
Ops == [i \in DOMAIN calls |-> calls[i].op]

IsPrefix(p, q) == Len(p) <= Len(q) /\ SubSeq(q, 1, Len(p)) = p

\* C28: the forced path issues its calls in the order terminate, stop,
\* terminate: at most two terminate calls and one stop call; the stop is
\* issued only with force set and after a first terminate that erred or
\* returned no terminating instance; the second terminate follows the stop
\* whatever the stop answered; the 10 s sleep is there exactly when the stop
\* succeeded.
C28_ForcedCallOrder ==
    cmd = "terminate" =>
        /\ NumCalls("stop") > 0 => forceTerminate
        /\ forceTerminate =>
              /\ NumCalls("terminate") <= 2
              /\ NumCalls("stop") <= 1
              /\ \/ IsPrefix(Ops, <<"describe", "terminate", "stop", "sleep", "terminate">>)
                 \/ IsPrefix(Ops, <<"describe", "terminate", "stop", "terminate">>)
              /\ Len(calls) >= 3 =>
                    /\ calls[2].resp.kind \in {"err", "empty"}
                    /\ calls[3].op = "stop"
                    /\ pc = "force2" \/ NumCalls("terminate") = 2
                    /\ (NumCalls("sleep") = 1) <=> (calls[3].resp.kind = "ok")
                    /\ NumCalls("sleep") = 1 => calls[4] = Call("sleep", NoResp, 10)
              /\ (Len(calls) >= 2 /\ calls[2].resp.kind = "ok") => Len(calls) = 2
              /\ pc = "stop" => Len(calls) = 2

C28_Witness ==
    /\ cmd = "terminate"
    /\ forceTerminate
    /\ Ops = <<"describe", "terminate", "stop", "sleep", "terminate">>
    /\ calls[2].resp.kind = "empty"
    /\ calls[5].resp.kind = "ok"
    /\ pc = "wait"

RECURSIVE SleepSeconds(_)
\* The seconds slept in the first k entries of calls.
SleepSeconds(k) ==
    IF k = 0 THEN 0
    ELSE SleepSeconds(k - 1) + (IF calls[k].op = "sleep" THEN calls[k].secs ELSE 0)

\* The attempt a terminate call at position i of calls belongs to.
AttemptOf(i) == Cardinality({j \in 1..i : calls[j].op = "terminate"})

IsRetriedError(c) ==
    /\ c.op = "terminate"
    /\ c.resp.kind = "err"
    /\ c.resp.code # "conflict"

\* C29: in the graceful path an error other than the state conflict on
\* attempt n = 1, 2 is followed by a sleep of n seconds and then attempt n+1;
\* on attempt 3 it ends the invocation with the termination error and no
\* sleep; there is no other sleep, so one invocation backs off at most 3
\* seconds in all.
C29_LinearBackOff ==
    (cmd = "terminate" /\ ~forceTerminate) =>
        /\ \A i \in DOMAIN calls :
              /\ IsRetriedError(calls[i]) =>
                    IF AttemptOf(i) < 3
                    THEN /\ Len(calls) > i
                         /\ calls[i + 1] = Call("sleep", NoResp, AttemptOf(i))
                         /\ pc = "graceful" \/ Len(calls) > i + 1
                         /\ Len(calls) > i + 1 => calls[i + 2].op = "terminate"
                    ELSE /\ AttemptOf(i) = 3
                         /\ Len(calls) = i
                         /\ Returned
                         /\ result = ErrTerminateFailed
              /\ calls[i].op = "sleep" =>
                    /\ i > 1
                    /\ IsRetriedError(calls[i - 1])
                    /\ calls[i].secs = AttemptOf(i)
                    /\ calls[i].secs \in {1, 2}
        /\ SleepSeconds(Len(calls)) <= 3
        /\ NumCalls("sleep") <= 2

C29_Witness ==
    /\ cmd = "terminate"
    /\ ~forceTerminate
    /\ Ops = <<"describe", "terminate", "sleep", "terminate", "sleep", "terminate">>
    /\ SleepSeconds(Len(calls)) = 3
    /\ calls[6].resp = ErrResp("generic")
    /\ result = ErrTerminateFailed

\* C30: the terminal wait is entered only from an initial describe that
\* reported shutting-down or from a terminate call that returned a
\* terminating instance; a terminate call answered with no error and an empty
\* list never leads to the wait: in the graceful path the next attempt
\* follows at once, without a sleep (after attempt 3 the final error), in
\* the forced path the stop call follows the first one and the final error
\* the second one.
C30_WaitOnlyAfterTerminating ==
    cmd = "terminate" =>
        /\ WaitEntered =>
              \/ /\ Len(calls) = 1
                 /\ calls[1] = Call("describe", OkResp("shutting-down"), 0)
              \/ /\ calls[Len(calls)].op = "terminate"
                 /\ calls[Len(calls)].resp.kind = "ok"
        /\ \A i \in DOMAIN calls :
              (calls[i].op = "terminate" /\ calls[i].resp.kind = "empty") =>
                  IF ~forceTerminate
                  THEN IF AttemptOf(i) < maxRetries
                       THEN \/ Len(calls) = i /\ pc = "graceful"
                                 /\ attempt = AttemptOf(i) + 1
                            \/ Len(calls) > i /\ calls[i + 1].op = "terminate"
                       ELSE /\ Len(calls) = i
                            /\ Returned
                            /\ result = ErrForceUnexpected
                            /\ ~WaitEntered
                  ELSE IF AttemptOf(i) = 1
                       THEN \/ Len(calls) = i /\ pc = "stop"
                            \/ Len(calls) > i /\ calls[i + 1].op = "stop"
                       ELSE /\ Len(calls) = i
                            /\ Returned
                            /\ result = ErrForceUnexpected
                            /\ ~WaitEntered

C30_Witness ==
    /\ cmd = "terminate"
    /\ forceTerminate
    /\ Ops = <<"describe", "terminate", "stop", "terminate">>
    /\ calls[2].resp.kind = "empty"
    /\ calls[4].resp.kind = "empty"
    /\ Returned
    /\ result = ErrForceUnexpected
    /\ ~WaitEntered

(***************************************************************************)
(* Races with the provider, the ticks of the wait, and termination.        *)
(***************************************************************************)
Terminable == {"running", "stopping", "stopped"}

\* The provider has moved the instance to shutting-down or terminated on its
\* own since the initial describe, and a terminate call is about to be issued.
InterruptedBeforeTerminate ==
    /\ cmd = "terminate"
    /\ pc \in {"graceful", "force1", "force2"}
    /\ currentState \in Terminable
    /\ inst \in {"shutting-down", "terminated"}

\* The terminate call on such an instance, answered with the instance's
\* record: the record is unchanged and the terminal wait is entered.
InterruptedTerminateStep ==
    (InterruptedBeforeTerminate /\ calls' # calls
        /\ calls'[Len(calls')].resp.kind = "ok") =>
        /\ calls' = Append(calls, Call("terminate", OkResp(inst), 0))
        /\ inst' = inst
        /\ pc' = "wait"
        /\ result' = "running"
        /\ waitBudget' = IF forceTerminate THEN ForceTimeout(terminationTimeout)
                         ELSE terminationTimeout
        /\ elapsed' = 0

\* What follows a terminate call that was answered with the record of a
\* terminating instance.
AfterTerminateAccepted ==
    (cmd = "terminate" /\ currentState \in Terminable /\ Len(calls) >= 2
        /\ calls[Len(calls)].op = "terminate"
        /\ calls[Len(calls)].resp.kind = "ok") =>
        /\ WaitEntered
        /\ pc \in {"wait", "done"}
        /\ Returned => IsWaitResult
        /\ (Returned /\ lastPoll = OkResp("terminated")) => result = "ok"
        /\ (Returned /\ calls[Len(calls)].resp.state = "terminated"
               /\ lastPoll.kind = "ok") =>
              /\ result = "ok"
              /\ polls = 1

C32_PollsOnTicksOnly ==
    (cmd = "terminate" /\ WaitEntered) =>
        /\ polls <= waitBudget \div 10
        /\ polls * 10 <= waitBudget
        /\ polls > 0 => elapsed >= 10
        /\ pc = "wait" => elapsed = 10 * polls
        /\ (Returned /\ result # ErrWaitTimeout) =>
              /\ polls >= 1
              /\ elapsed = 10 * polls
              /\ elapsed >= 10
        /\ (Returned /\ result = ErrWaitTimeout) =>
              /\ elapsed = waitBudget
              /\ polls <= waitBudget \div 10
              /\ polls >= (waitBudget \div 10) - 1

C32_Witness ==
    /\ cmd = "terminate"
    /\ waitBudget = 97
    /\ polls = 9
    /\ Returned
    /\ result = ErrWaitTimeout

\* C33: when every provider call returns, every terminate invocation
\* returns: it issues at most 3 terminate calls and one stop call, the
\* terminal wait never runs past its budget, and it ends with the timeout
\* error when the instance never leaves running, pending, stopped, stopping
\* or shutting-down.
C33_TerminateReturns ==
    /\ <>Returned
    /\ [](NumCalls("terminate") <= maxRetries /\ NumCalls("stop") <= 1)
    /\ [](WaitEntered => elapsed <= waitBudget /\ polls <= waitBudget \div TickSeconds)
    /\ [](pc = "wait" => <>(Returned /\ elapsed <= waitBudget))

C33_Witness ==
    /\ inst = "pending"
    /\ waitBudget = 300
    /\ polls = 30
    /\ lastPoll = OkResp("pending")
    /\ Returned
    /\ result = ErrWaitTimeout

\* C34: a describe of the terminal wait that fails with an error other than
\* not-found ends the wait at that tick with the describe error (exit status
\* 1, the error on the error stream): there is no further poll and the rest
\* of the budget is not waited for.
C34_DescribeFailureEndsWait ==
    (polls > 0 /\ lastPoll.kind = "err" /\ lastPoll.code # "notfound") =>
        /\ Returned
        /\ result = ErrWaitDescribe
        /\ result # ErrWaitTimeout
        /\ elapsed = 10 * polls
        /\ exitStatus = 1
        /\ ("Error: " \o ErrWaitDescribe) \in stderr

C34_Witness ==
    /\ polls = 2
    /\ lastPoll = ErrResp("generic")
    /\ waitBudget = 300
    /\ elapsed = 20
    /\ Returned
    /\ result = ErrWaitDescribe

(***************************************************************************)
(* The create command: calls issued, values emitted, and the token.        *)
(***************************************************************************)
\* C35: a create invocation issues at most one registration-token request
\* and at most one launch call, in that order and each at most once whatever
\* the answer; the launch requests exactly one instance; and when create
\* returns an error no launch call of the invocation has returned an
\* instance (the provider holds no instance of this invocation).
C35_FailedCreateLeavesNoInstance ==
    cmd = "create" =>
        /\ NumCalls("registration-token") <= 1
        /\ NumCalls("launch") <= 1
        /\ Len(runInputs) = NumCalls("launch")
        /\ IsPrefix(Ops, <<"registration-token", "launch", "wait-running">>)
        /\ \A i \in DOMAIN runInputs :
              /\ runInputs[i].minCount = 1
              /\ runInputs[i].maxCount = 1
        /\ (Returned /\ result # "ok") =>
              /\ \A i \in DOMAIN calls :
                    calls[i].op = "launch" => calls[i].resp.kind # "ok"
              /\ NumCalls("wait-running") = 0
              /\ inst = Absent

C35_Witness ==
    /\ cmd = "create"
    /\ Ops = <<"registration-token", "launch">>
    /\ calls[2].resp = ErrResp("generic")
    /\ Len(runInputs) = 1
    /\ Returned
    /\ result = ErrLaunchFailed
    /\ inst = Absent

\* The lines create has written under one of the given keys.
Emitted(keys) == {l.value : l \in {m \in stdout : m.key \in keys}}

\* Create has launched an instance and written its lines.
Launched ==
    /\ cmd = "create"
    /\ Len(runInputs) = 1
    /\ calls[Len(calls)].op \in {"launch", "wait-running"}
    /\ \E i \in DOMAIN calls : calls[i].op = "launch" /\ calls[i].resp.kind = "ok"

\* C36 as stated: the runner name and the label set create emits, and writes
\* to the RunnerName and Labels tags, are the values rendered into the
\* bootstrap payload (its registration line), for every input including an
\* empty label set or an empty runner name.
C36_EmittedValuesAreEffective ==
    Launched =>
        LET f == createFlags
            tags == runInputs[1].tagSpecifications[1].tags
        IN  /\ runInputs[1].userData.data.configLine =
                  "./config.sh --url https://github.com/" \o f.repoOwner \o "/"
                  \o f.repoName \o " --token " \o registrationToken
                  \o " --labels " \o EffectiveLabels(f)
                  \o " --name \"" \o EffectiveRunnerName(f)
                  \o "\" --work _work --replace"
            /\ Emitted({"Runner Name"}) = {EffectiveRunnerName(f)}
            /\ Emitted({"Labels", "Runner Labels"}) = {EffectiveLabels(f)}
            /\ TagValue(tags, "RunnerName") = EffectiveRunnerName(f)
            /\ TagValue(tags, "Labels") = EffectiveLabels(f)

\* C37 as stated: a launch call is issued only with a non-empty registration
\* token; a token response with the success status whose body holds no token
\* (an empty JSON object) makes create fail with the token error, without a
\* launch call.
C37_LaunchOnlyWithToken ==
    cmd = "create" =>
        /\ NumCalls("launch") > 0 => registrationToken # ""
        /\ \A i \in DOMAIN runInputs :
              runInputs[i].userData.data.configLine #
                  generateUserData("", createFlags.repoOwner, createFlags.repoName,
                                   createFlags.runnerLabels,
                                   createFlags.preRunnerScript,
                                   createFlags.runnerName).configLine
        /\ (httpResponse.transport = "ok" /\ httpResponse.status = 201
               /\ httpResponse.body = "empty-object") =>
              /\ Returned
              /\ result = ErrTokenFailed
              /\ NumCalls("launch") = 0

\* C38 as stated: a describe call answered with no error and no instance is
\* taken for instance-not-found at both places: the initial describe fails
\* the invocation as not found, and a poll of the terminal wait ends the wait
\* with success instead of polling on until the timeout.
C38_EmptyDescribeIsNotFound ==
    cmd = "terminate" =>
        /\ (Len(calls) > 0 /\ calls[1] = Call("describe", EmptyResp, 0)) =>
              /\ Returned
              /\ result = ErrNotFound
              /\ ~WaitEntered
        /\ (polls > 0 /\ lastPoll = EmptyResp) =>
              /\ Returned
              /\ result = "ok"

====
